---- MODULE Spec2Model ----
\* Model of Downloader.download (src/src/downloader.ts): a checksum-validated
\* download cache.  A download call is a stack of frames (the call itself and,
\* while it waits on line 43, the nested checksum download); every action is
\* one await point of the method together with the synchronous code that
\* follows it up to the next await.
EXTENDS Integers, Sequences, FiniteSets, TLC

\* ---------------------------------------------------------------- bounds
MaxBufLen == 1        \* longest payload buffer the transport returns
MaxChecksumLen == 2   \* longest checksum text the checksum endpoint returns
NumCalls == 2         \* call slots; the sequential caller of Spec uses the first
MaxIdLen == 2         \* most '/'-separated segments of a job id
MaxChunks == 2        \* most chunks a response body arrives in
MaxFixtureLen == 1    \* longest fixture (bytes, characters, array items) of the mock
MaxPosts == 2         \* most 'update' messages one preview panel is posted

\* ------------------------------------------------------------- constants
NL == 10              \* '\n'
GZ == 31              \* first byte written by the compressing serializer
BAD == 0              \* a byte the transformers reject
REPLACEMENT == 65533  \* U+FFFD, what decoding yields for a byte >= 128
StatusOk == 200       \* the status code the real transport accepts
StatusNotFound == 404 \* a status code it refuses

Calls == 1..NumCalls
SeqCalls == {1}
ConcCalls == {1, 2}

\* Buffers and strings are sequences of numbers (bytes, UTF-16 code units).
RECURSIVE SeqsUpTo(_, _)
SeqsUpTo(S, n) ==
    IF n = 0 THEN {<<>>}
    ELSE LET shorter == SeqsUpTo(S, n - 1)
         IN shorter \cup {Append(s, x) : s \in {t \in shorter : Len(t) = n - 1}, x \in S}

\* What the remote can serve: well-formed bodies up to the bound, and one body
\* that the job's transformer rejects.
PayloadBuffers == SeqsUpTo({1}, MaxBufLen) \cup {<<BAD>>}
ChecksumBuffers == SeqsUpTo({97}, MaxChecksumLen) \cup {<<BAD>>}

\* ------------------------------------------------------------ pure parts
\* Buffer.from(s, 'utf-8') on code units below 0x800.
RECURSIVE Utf8Encode(_)
Utf8Encode(s) ==
    IF s = <<>> THEN <<>>
    ELSE LET ch == Head(s)
         IN (IF ch < 128 THEN <<ch>>
             ELSE <<192 + (ch \div 64), 128 + (ch % 64)>>) \o Utf8Encode(Tail(s))

\* bufferToString / buf.toString('utf-8') on single-byte input: an ASCII byte
\* is its own code unit, any stray byte >= 128 decodes to U+FFFD.
BufferToString(b) ==
    [i \in 1..Len(b) |-> IF b[i] < 128 THEN b[i] ELSE REPLACEMENT]

SliceKeepsLast(s) == s

\* String.prototype.slice(0, -1)
SliceOffLast(s) == IF Len(s) = 0 THEN <<>> ELSE SubSeq(s, 1, Len(s) - 1)

MarkerTextNoNewline(checksum) == checksum

\* `${checksum}\n` as written to the marker file
MarkerText(checksum) == Append(checksum, NL)
MarkerBytes(checksum) == Utf8Encode(MarkerText(checksum))

\* A callable's outcome: a value or a throw.
Ok(v) == [ok |-> TRUE, val |-> v, err |-> "none"]
Err(e) == [ok |-> FALSE, val |-> <<>>, err |-> e]

Rejects(b) == \E i \in 1..Len(b) : b[i] \in {BAD, GZ}

\* job.transformer.  "json" stands for the payload transformer (a parser:
\* rejects some buffers, otherwise yields a value that is not the buffer);
\* "text" for the checksum job's transformer (decodes the buffer to a string).
Transformer(kind, b) ==
    IF Rejects(b) THEN Err("transform")
    ELSE IF kind = "json" THEN Ok([i \in 1..Len(b) |-> b[i] + 100])
    ELSE Ok(BufferToString(b))

\* cache.serializer ?? (b => b)
Serializer(kind, b) ==
    CASE kind = "none" -> Ok(b)
      [] kind = "gz" -> Ok(<<GZ>> \o b)
      [] OTHER -> Err("transform")

\* cache.deserializer ?? (b => b)
Deserializer(kind, b) ==
    CASE kind = "none" -> Ok(b)
      [] OTHER -> IF Len(b) > 0 /\ b[1] = GZ THEN Ok(Tail(b)) ELSE Err("transform")

SerializerKinds == {"none", "gz", "throws"}
DeserializerKinds == {"none", "gunzip"}

\* ------------------------------------------------------------ cache store
\* A path is the sequence of its segments below "/"; a job id is the sequence
\* of its '/'-separated segments.
\* path.normalize on an absolute path: empty and "." segments vanish, ".."
\* removes the segment before it (and is dropped at the root).
RECURSIVE Resolve(_, _)
Resolve(done, rest) ==
    IF rest = <<>> THEN done
    ELSE LET seg == Head(rest)
         IN IF seg \in {"", "."} THEN Resolve(done, Tail(rest))
            ELSE IF seg = ".."
            THEN Resolve(IF done = <<>> THEN <<>> ELSE SubSeq(done, 1, Len(done) - 1),
                         Tail(rest))
            ELSE Resolve(Append(done, seg), Tail(rest))
Normalize(segs) == Resolve(<<>>, segs)

\* path.join(root, name)
PathJoin(root, name) == Normalize(root \o name)
\* id + checksumExtension: the extension continues the id's last segment
IdPlus(id, ext) == [id EXCEPT ![Len(id)] = @ \o ext]

RECURSIVE PathString(_)
PathString(segs) == IF segs = <<>> THEN "" ELSE "/" \o Head(segs) \o PathString(Tail(segs))

\* The downloader and the job of Spec and SpecConc.
CacheRoot == <<"cache">>
Id == <<"x">>
ChecksumExtension == ".cache"
CachePath == PathString(PathJoin(CacheRoot, Id))
CacheChecksumPath == PathString(PathJoin(CacheRoot, IdPlus(Id, ChecksumExtension)))
Paths == {CachePath, CacheChecksumPath}

\* The downloaders and jobs of SpecPaths.
Roots == {<<"cache">>, <<"home", "cache">>}
IdSegments == {"a", ".", "..", ""}
Ids == SeqsUpTo(IdSegments, MaxIdLen) \ {<<>>}
Extensions == {".cache", ".c"}

NoFile == [exists |-> FALSE, data |-> <<>>]
File(d) == [exists |-> TRUE, data |-> d]

IsEnoent(e) == e = "ENOENT"

\* fileUtil.readFile: the content, ENOENT when the file is absent, or any
\* other I/O error.
ReadFile(fs, p) ==
    (IF fs[p].exists THEN {Ok(fs[p].data)} ELSE {Err("ENOENT")}) \cup {Err("EIO")}

\* fileUtil.writeFile: the file now holds d, or the write failed and the file
\* is as before.
WriteFile(fs, p, d) ==
    {[ok |-> TRUE, fs |-> [fs EXCEPT ![p] = File(d)], err |-> "none"],
     [ok |-> FALSE, fs |-> fs, err |-> "EIO"]}

\* fsp.unlink
Unlink(fs, p) ==
    (IF fs[p].exists THEN {[ok |-> TRUE, fs |-> [fs EXCEPT ![p] = NoFile], err |-> "none"]}
     ELSE {[ok |-> FALSE, fs |-> fs, err |-> "ENOENT"]})
    \cup {[ok |-> FALSE, fs |-> fs, err |-> "EIO"]}

\* LowLevelDownloader.get: the body bytes or a transport error.
LldGet(jobKind) ==
    {Err("transport")} \cup
    {Ok(b) : b \in IF jobKind = "checksum" THEN ChecksumBuffers ELSE PayloadBuffers}

\* ------------------------------------------------------------------ state
VARIABLES
    stack,         \* stack[c]: frames of call slot c, the running one last
    files,         \* the cache store: path -> file
    log,           \* log[c]: what the current call of slot c logged, in order
    io,            \* io[c]: transport and file operations of the current call
    start,         \* start[c]: the cache store when slot c's current call began
    prev,          \* prev[c]: summary of the call that ran in slot c before
    serializer,    \* job.cache.serializer of the job with this id
    deserializer,  \* job.cache.deserializer of the job with this id
    writer,        \* writer[p]: the slot whose current call wrote file p, else 0
    paired,        \* marker and payload on disk were written by one call
    apps,          \* apps[c]: the callables the current call applied, in order
    pathsOf,       \* SpecPaths: a downloader's root, a job's id and its cache paths
    req,           \* SpecLld: a request of the real transport and its promise
    mock,          \* SpecMock: the fixture transport and the promise of its get
    view,          \* SpecView: a preview panel of the ViewProvider and its workspace
    layered,       \* SpecSampler: a LayeredSampler and the last setConfig call on it
    web,           \* SpecWeb: the script of a webview, its host and the messages between
    panels         \* SpecVanilla: the ViewProvider's vanilla data and its panels' data

vars == <<stack, files, log, io, start, prev, serializer, deserializer,
          writer, paired, apps, pathsOf, req, mock, view, layered, web, panels>>

Undefined == [known |-> FALSE, val |-> <<>>]
Str(s) == [known |-> TRUE, val |-> s]

Pending == [kind |-> "pending", val |-> <<>>]
RetValue(v) == [kind |-> "value", val |-> v]
RetUndefined == [kind |-> "undefined", val |-> <<>>]
Rejected == [kind |-> "thrown", val |-> <<>>]

\* A frame of download(job, out): the locals of lines 34-37 and the position.
NewFrame(kind, cache) ==
    [kind |-> kind,
     cache |-> cache,
     pc |-> IF cache THEN "checksum" ELSE "fetch",
     checksum |-> Undefined,
     fetched |-> FALSE,
     buffer |-> <<>>,
     out |-> [cachePath |-> IF cache THEN CachePath ELSE "", checksum |-> Undefined],
     result |-> Pending]

NoPrev ==
    [valid |-> FALSE, cold |-> FALSE, faults |-> FALSE, cache |-> FALSE,
     checksum |-> Undefined, fetched |-> FALSE, buffer |-> <<>>, result |-> Pending]

\* What a later call is compared with: how the finished call f of a slot went,
\* fs0 being the cache store it started from and ops its operations.  Only a
\* call that started from an empty cache is remembered in detail.
Summary(f, fs0, ops) ==
    IF \E p \in Paths : fs0[p].exists
    THEN [NoPrev EXCEPT !.valid = TRUE]
    ELSE [valid |-> TRUE,
          cold |-> TRUE,
          faults |-> \E i \in 1..Len(ops) : ops[i].res = "EIO",
          cache |-> f.cache,
          checksum |-> f.checksum,
          fetched |-> f.fetched,
          buffer |-> f.buffer,
          result |-> f.result]

Top(c) == stack[c][Len(stack[c])]
Running(c) == stack[c] # <<>> /\ Top(c).pc # "done"
At(c, pc) == stack[c] # <<>> /\ Top(c).pc = pc
TransformerOf(f) == IF f.kind = "main" THEN "json" ELSE "text"

LogEntry(f, level, msg) == [level |-> level, msg |-> msg, job |-> f.kind]
IoEntry(f, op, target, res) == [op |-> op, target |-> target, res |-> res, job |-> f.kind]
\* An application of a job callable: which one, where its argument came from
\* ("transport": the buffer of line 78, "cache": the buffer read on line 50 or
\* 100), and the argument.
App(f, fn, src, arg) == [fn |-> fn, src |-> src, arg |-> arg, job |-> f.kind]

NoPaths ==
    [root |-> <<>>, id |-> <<>>, ext |-> "", computed |-> FALSE,
     cachePath |-> <<>>, cacheChecksumPath |-> <<>>]

NoRequest ==
    [phase |-> "idle", handler |-> "none", timeout |-> FALSE, timedOut |-> FALSE,
     status |-> 0, body |-> <<>>, chunks |-> <<>>,
     promise |-> "idle", value |-> <<>>]

NoMock == [fixtures |-> <<>>, uri |-> <<>>, promise |-> "idle", value |-> <<>>]

NoView ==
    [phase |-> "closed", docs |-> <<>>, pack |-> FALSE, fetched |-> FALSE,
     vanilla |-> <<>>, fileUri |-> <<>>, fileType |-> "", fileResource |-> Undefined,
     atInit |-> {}, dependencies |-> {}, data |-> <<>>, posts |-> 0, message |-> <<>>]

\* A value of type unknown: its typeof and its text.
StringValue(s) == [type |-> "string", val |-> s]
NumberValue == [type |-> "number", val |-> "0"]
UndefinedValue == [type |-> "undefined", val |-> ""]

\* view/samplers.ts lines 107-115
EmptySampler ==
    [class |-> "EmptySampler", layers |-> <<>>, layerNames |-> <<>>,
     currentLayer |-> UndefinedValue, currentDelegate |-> 0]

NoLayered ==
    [sampler |-> EmptySampler, before |-> EmptySampler, calls |-> 0, value |-> UndefinedValue]

NoScale == [type |-> "undefined", exp |-> 0]
Scale(e) == [type |-> "number", exp |-> e]
NoWeb ==
    [variant |-> "script", fileType |-> "", host |-> "closed", phase |-> "unloaded",
     persisted |-> [viewScale |-> NoScale, viewConfig |-> UndefinedValue],
     viewScale |-> Scale(0), viewConfig |-> UndefinedValue, captured |-> UndefinedValue,
     sampler |-> EmptySampler, listening |-> FALSE, canvas |-> FALSE,
     ready |-> 0, inbox |-> <<>>, posted |-> 0, answered |-> 0, handled |-> 0, lost |-> <<>>,
     wheels |-> 0, deltaY |-> 0, frames |-> 0,
     picks |-> 0, picked |-> UndefinedValue, replaced |-> FALSE]

NoPanels ==
    [vanilla |-> [set |-> FALSE, val |-> <<>>], downloads |-> 0, edits |-> 0,
     panel |-> <<>>]

\* A downloader that has made no call yet, over an empty cache.
InitDownloader ==
    /\ stack = [c \in Calls |-> <<>>]
    /\ files = [p \in Paths |-> NoFile]
    /\ log = [c \in Calls |-> <<>>]
    /\ io = [c \in Calls |-> <<>>]
    /\ start = [c \in Calls |-> [p \in Paths |-> NoFile]]
    /\ prev = [c \in Calls |-> NoPrev]
    /\ serializer \in SerializerKinds
    /\ deserializer \in DeserializerKinds
    /\ writer = [p \in Paths |-> 0]
    /\ paired = FALSE
    /\ apps = [c \in Calls |-> <<>>]

Init ==
    /\ InitDownloader
    /\ pathsOf = NoPaths /\ req = NoRequest /\ mock = NoMock /\ view = NoView
    /\ layered = NoLayered /\ web = NoWeb /\ panels = NoPanels

\* Catch with the try around the fallback (lines 99-107) left out.
CatchFallbackEscapes(site) ==
    CASE site = "checksum" -> "catchChecksum"
      [] site = "readMarker" -> "catchMarker"
      [] site = "readCached" -> "catchCached"
      [] site = "unlink" -> "catchUnlink"
      [] site = "fetch" -> "catchDownload"
      [] site = "writeMarker" -> "catchWriteMarker"
      [] site = "writePayload" -> "catchWritePayload"
      [] site = "transform" -> "catchDownload"
      [] OTHER -> "uncaught"

\* The catch clause that receives an exception thrown at a given await.
Catch(site) ==
    CASE site = "checksum" -> "catchChecksum"          \* line 72
      [] site = "readMarker" -> "catchMarker"          \* line 67
      [] site = "readCached" -> "catchCached"          \* line 54
      [] site = "unlink" -> "catchUnlink"              \* line 61
      [] site = "fetch" -> "catchDownload"             \* line 96
      [] site = "writeMarker" -> "catchWriteMarker"    \* line 83
      [] site = "writePayload" -> "catchWritePayload"  \* line 90
      [] site = "transform" -> "catchDownload"         \* line 96
      [] site = "fallback" -> "catchFallback"          \* line 105
      [] OTHER -> "uncaught"

Finish(f, r) == [f EXCEPT !.pc = "done", !.result = r]
Goto(f, pc) == [f EXCEPT !.pc = pc]

AfterDownloadErrorNoFallback(f) == Finish(f, RetUndefined)

AfterDownloadErrorAlwaysFallback(f) == Goto(f, "fallback")

AfterDownloadErrorRetries(f) == Goto(f, "fetch")

AfterCachedErrorForgetsChecksum(f, err) ==
    IF IsEnoent(err) THEN [f EXCEPT !.pc = "unlink", !.checksum = Undefined]
    ELSE Goto(f, "fetch")

AfterCachedErrorGivesUp(f, err) == Finish(f, RetUndefined)

AfterCachedErrorAlwaysUnlinks(f, err) == Goto(f, "unlink")

\* lines 55-65: after logging, `if (isEnoent(e))` removes the marker; either
\* way the method falls through to the real fetch.
AfterCachedError(f, err) == Goto(f, IF IsEnoent(err) THEN "unlink" ELSE "fetch")

AfterMarkerWriteErrorSkipsPayload(f) == Goto(f, "transform")

\* lines 83-87: a failed marker write is logged and the payload write follows.
AfterMarkerWriteError(f) == Goto(f, "writePayload")

\* lines 97-111: after logging the download error, `if (cache && cachePath)`
\* tries the fallback, otherwise the method returns undefined.
AfterDownloadError(f) ==
    IF f.cache THEN Goto(f, "fallback") ELSE Finish(f, RetUndefined)

AfterMarkerErrorReadsPayload(f) == Goto(f, "readCached")

\* lines 67-71: the catch of the marker read falls through to the fetch of
\* line 77, the payload read of line 49 being inside the try it ends.
AfterMarkerError(f) == Goto(f, "fetch")

MarkerReadErrorLogsAlways(f, err) == <<LogEntry(f, "error", "loadMarker")>>

\* lines 67-71: `if (!isEnoent(e))` logs the failed marker read.
MarkerReadErrorLogs(f, err) ==
    IF IsEnoent(err) THEN <<>> ELSE <<LogEntry(f, "error", "loadMarker")>>

\* The frame and the log lines after the catch clause for `site` has run on
\* error `err`, up to the next await.
Thrown(f, site, err) ==
    LET h == Catch(site)
    IN CASE h = "catchChecksum" ->
              [f |-> Goto(f, "fetch"), logs |-> <<LogEntry(f, "error", "fetchChecksum")>>]
         [] h = "catchMarker" ->
              [f |-> AfterMarkerError(f), logs |-> MarkerReadErrorLogs(f, err)]
         [] h = "catchCached" ->
              [f |-> AfterCachedError(f, err),
               logs |-> <<LogEntry(f, "error", "loadCached")>>]
         [] h = "catchUnlink" ->
              [f |-> Goto(f, "fetch"), logs |-> <<LogEntry(f, "error", "removeMarker")>>]
         [] h = "catchWriteMarker" ->
              [f |-> AfterMarkerWriteError(f), logs |-> <<LogEntry(f, "error", "saveMarker")>>]
         [] h = "catchWritePayload" ->
              [f |-> Goto(f, "transform"), logs |-> <<LogEntry(f, "error", "saveCache")>>]
         [] h = "catchDownload" ->
              [f |-> AfterDownloadError(f),
               logs |-> <<LogEntry(f, "error", "download")>>]
         [] h = "catchFallback" ->
              [f |-> Finish(f, RetUndefined), logs |-> <<LogEntry(f, "error", "fallback")>>]
         [] OTHER ->
              [f |-> Finish(f, Rejected), logs |-> <<>>]

LoadCachedSkipsDeserializer(f, r) ==
    IF ~r.ok THEN r ELSE Transformer(TransformerOf(f), r.val)

LoadCachedIgnoringReadError(f, r) ==
    LET d == Deserializer(deserializer, r.val)
    IN IF ~d.ok THEN d ELSE Transformer(TransformerOf(f), d.val)

\* transformer(await deserializer(cachedBuffer)) on the outcome of a read
LoadCached(f, r) ==
    IF ~r.ok THEN r
    ELSE LET d == Deserializer(deserializer, r.val)
         IN IF ~d.ok THEN d ELSE Transformer(TransformerOf(f), d.val)

\* Who wrote the cache files, after slot c's call performed the operations ios.
Written(c, ios) ==
    LET done == {ios[i] : i \in {j \in 1..Len(ios) :
                     ios[j].op \in {"write", "unlink"} /\ ios[j].res = "none"}}
        w == [p \in Paths |->
                IF \E e \in done : e.target = p /\ e.op = "write" THEN c
                ELSE IF \E e \in done : e.target = p THEN 0
                ELSE writer[p]]
    IN [writer |-> w,
        paired |-> IF done = {} THEN paired ELSE \A p \in Paths : w[p] = c]

\* One step of slot c's running frame: the frame it becomes, the cache store,
\* and what the step logged, performed and applied.
StepApp(c, f, fs, logs, ios, as) ==
    /\ stack' = [stack EXCEPT ![c] = [@ EXCEPT ![Len(@)] = f]]
    /\ files' = fs
    /\ log' = [log EXCEPT ![c] = @ \o logs]
    /\ io' = [io EXCEPT ![c] = @ \o ios]
    /\ apps' = [apps EXCEPT ![c] = @ \o as]
    /\ writer' = Written(c, ios).writer
    /\ paired' = Written(c, ios).paired
    /\ UNCHANGED <<start, prev, serializer, deserializer, pathsOf, req, mock, view, layered, web, panels>>

\* What transformer(await deserializer(cachedBuffer)) applies on the outcome
\* r of reading the payload file: nothing when the read failed, the
\* transformer only when the deserializer returned.
LoadCachedApps(f, r) ==
    IF ~r.ok THEN <<>>
    ELSE LET d == Deserializer(deserializer, r.val)
         IN <<App(f, "deserializer", "cache", r.val)>> \o
            (IF d.ok THEN <<App(f, "transformer", "cache", d.val)>> ELSE <<>>)

Step(c, f, fs, logs, ios) == StepApp(c, f, fs, logs, ios, <<>>)

StepThrownApp(c, site, err, fs, ios, as) ==
    LET t == Thrown(Top(c), site, err) IN StepApp(c, t.f, fs, t.logs, ios, as)

StepThrown(c, site, err, fs, ios) == StepThrownApp(c, site, err, fs, ios, <<>>)

\* ---------------------------------------------------------------- actions
\* A caller invokes download(job) in slot c (lines 33-41).
Download(c, cache) ==
    /\ ~Running(c)
    /\ stack' = [stack EXCEPT ![c] = <<NewFrame("main", cache)>>]
    /\ log' = [log EXCEPT ![c] = <<>>]
    /\ io' = [io EXCEPT ![c] = <<>>]
    /\ start' = [start EXCEPT ![c] = files]
    /\ prev' = [prev EXCEPT ![c] = IF stack[c] = <<>> THEN NoPrev
                                   ELSE Summary(Top(c), start[c], io[c])]
    /\ apps' = [apps EXCEPT ![c] = <<>>]
    /\ writer' = [p \in Paths |-> IF writer[p] = c THEN 0 ELSE writer[p]]
    /\ UNCHANGED <<files, serializer, deserializer, paired, pathsOf, req, mock, view, layered, web, panels>>

ChecksumFrameCached == NewFrame("checksum", TRUE)

\* lines 43, 126: the nested call's job is { ...checksumJob, id }, and a
\* checksumJob is a Job without `cache`.
ChecksumFrame == NewFrame("checksum", FALSE)

\* line 43: this.download({ ...checksumJob, id }) is entered.
ChecksumCall(c) ==
    /\ At(c, "checksum")
    /\ stack' = [stack EXCEPT ![c] = Append(@, ChecksumFrame)]
    /\ UNCHANGED <<files, log, io, start, prev, serializer, deserializer,
                   writer, paired, apps, pathsOf, req, mock, view,
                   layered, web, panels>>

ChecksumResultFatal(f, r) ==
    IF r.kind = "value"
    THEN [f EXCEPT !.checksum = Str(r.val), !.out.checksum = Str(r.val), !.pc = "readMarker"]
    ELSE Finish(f, RetUndefined)

ChecksumResultOutUnset(f, r) ==
    LET cs == IF r.kind = "value" THEN Str(r.val) ELSE Undefined
    IN [f EXCEPT !.checksum = cs, !.pc = "readMarker"]

\* line 43: out.checksum = checksum = <what the nested download returned>;
\* the method goes on to the marker read whether or not that is undefined.
ChecksumResult(f, r) ==
    LET cs == IF r.kind = "value" THEN Str(r.val) ELSE Undefined
    IN [f EXCEPT !.checksum = cs, !.out.checksum = cs, !.pc = "readMarker"]

\* line 43: the nested download settles.
ChecksumReturn(c) ==
    /\ Len(stack[c]) = 2
    /\ At(c, "done")
    /\ LET r == Top(c).result
           f == stack[c][1]
           t == Thrown(f, "checksum", "rejected")
       IN /\ stack' = [stack EXCEPT ![c] =
                         IF r.kind = "thrown" THEN <<t.f>> ELSE <<ChecksumResult(f, r)>>]
          /\ log' = [log EXCEPT ![c] = @ \o (IF r.kind = "thrown" THEN t.logs ELSE <<>>)]
    /\ UNCHANGED <<files, io, start, prev, serializer, deserializer,
                   writer, paired, apps, pathsOf, req, mock, view,
                   layered, web, panels>>

\* lines 45-47: read the marker, strip the newline, compare.
ReadMarker(c) ==
    /\ At(c, "readMarker")
    /\ LET f == Top(c)
           ios(res) == <<IoEntry(f, "read", CacheChecksumPath, res)>>
       IN \E r \in ReadFile(files, CacheChecksumPath) :
            IF r.ok
            THEN LET cacheChecksum == SliceOffLast(BufferToString(r.val))
                 IN Step(c, Goto(f, IF f.checksum = Str(cacheChecksum)
                                    THEN "readCached" ELSE "fetch"),
                         files, <<>>, ios(r.err))
            ELSE StepThrown(c, "readMarker", r.err, files, ios(r.err))

\* lines 49-53: the cache-hit fast path.
ReadCached(c) ==
    /\ At(c, "readCached")
    /\ LET f == Top(c)
           ios(res) == <<IoEntry(f, "read", CachePath, res)>>
       IN \E r \in ReadFile(files, CachePath) :
            LET ans == LoadCached(f, r)
            IN IF ans.ok
               THEN StepApp(c, Finish(f, RetValue(ans.val)), files,
                            <<LogEntry(f, "info", "skipped")>>, ios(r.err),
                            LoadCachedApps(f, r))
               ELSE StepThrownApp(c, "readCached", ans.err, files, ios(r.err),
                                  LoadCachedApps(f, r))

\* line 60: remove the marker whose payload is missing.
UnlinkMarker(c) ==
    /\ At(c, "unlink")
    /\ LET f == Top(c)
           ios(res) == <<IoEntry(f, "unlink", CacheChecksumPath, res)>>
       IN \E r \in Unlink(files, CacheChecksumPath) :
            IF r.ok THEN Step(c, Goto(f, "fetch"), r.fs, <<>>, ios(r.err))
            ELSE StepThrown(c, "unlink", r.err, r.fs, ios(r.err))

AfterFetchNoMarker(f) == IF ~f.cache THEN "transform" ELSE "writePayload"

\* lines 79-80: `if (cache && cachePath && cacheChecksumPath)`, `if (checksum)`.
AfterFetch(f) ==
    IF ~f.cache THEN "transform"
    ELSE IF f.checksum.known /\ f.checksum.val # <<>> THEN "writeMarker"
    ELSE "writePayload"

\* line 78: the transport fetch of job.uri.
Fetch(c) ==
    /\ At(c, "fetch")
    /\ LET f == Top(c)
           ios(res) == <<IoEntry(f, "get", f.kind, res)>>
       IN \E r \in LldGet(f.kind) :
            IF r.ok
            THEN Step(c, [f EXCEPT !.fetched = TRUE, !.buffer = r.val, !.pc = AfterFetch(f)],
                      files, <<>>, ios(r.err))
            ELSE StepThrown(c, "fetch", r.err, files, ios(r.err))

WriteMarkerUnlessPresent(c) ==
    /\ At(c, "writeMarker")
    /\ LET f == Top(c)
           ios(res) == <<IoEntry(f, "write", CacheChecksumPath, res)>>
       IN \E r \in WriteFile(files, CacheChecksumPath, MarkerBytes(f.checksum.val)) :
            IF r.ok
            THEN Step(c, Goto(f, "writePayload"),
                      IF files[CacheChecksumPath].exists THEN files ELSE r.fs,
                      <<>>, ios(r.err))
            ELSE StepThrown(c, "writeMarker", r.err, r.fs, ios(r.err))

\* lines 80-86: save the checksum marker.
WriteMarker(c) ==
    /\ At(c, "writeMarker")
    /\ LET f == Top(c)
           ios(res) == <<IoEntry(f, "write", CacheChecksumPath, res)>>
       IN \E r \in WriteFile(files, CacheChecksumPath, MarkerBytes(f.checksum.val)) :
            IF r.ok THEN Step(c, Goto(f, "writePayload"), r.fs, <<>>, ios(r.err))
            ELSE StepThrown(c, "writeMarker", r.err, r.fs, ios(r.err))

\* lines 87-92: serialize and save the payload.
WritePayload(c) ==
    /\ At(c, "writePayload")
    /\ LET f == Top(c)
           s == Serializer(serializer, f.buffer)
           ios(res) == <<IoEntry(f, "write", CachePath, res)>>
           as == <<App(f, "serializer", "transport", f.buffer)>>
       IN IF ~s.ok
          THEN StepThrownApp(c, "writePayload", s.err, files, <<>>, as)
          ELSE \E r \in WriteFile(files, CachePath, s.val) :
                 IF r.ok THEN StepApp(c, Goto(f, "transform"), r.fs, <<>>, ios(r.err), as)
                 ELSE StepThrownApp(c, "writePayload", r.err, r.fs, ios(r.err), as)

\* lines 94-95: return await transformer(buffer).
Transform(c) ==
    /\ At(c, "transform")
    /\ LET f == Top(c)
           ans == Transformer(TransformerOf(f), f.buffer)
           info == <<LogEntry(f, "info", "downloaded")>>
           t == Thrown(f, "transform", ans.err)
           as == <<App(f, "transformer", "transport", f.buffer)>>
       IN IF ans.ok
          THEN StepApp(c, Finish(f, RetValue(ans.val)), files, info, <<>>, as)
          ELSE StepApp(c, t.f, files, info \o t.logs, <<>>, as)

\* lines 98-108: the stale-cache fallback.
Fallback(c) ==
    /\ At(c, "fallback")
    /\ LET f == Top(c)
           ios(res) == <<IoEntry(f, "read", CachePath, res)>>
       IN \E r \in ReadFile(files, CachePath) :
            LET ans == LoadCached(f, r)
            IN IF ans.ok
               THEN StepApp(c, Finish(f, RetValue(ans.val)), files,
                            <<LogEntry(f, "warn", "fellBack")>>, ios(r.err),
                            LoadCachedApps(f, r))
               ELSE StepThrownApp(c, "fallback", ans.err, files, ios(r.err),
                                  LoadCachedApps(f, r))

\* A running call resumes at its next await.
Continue(c) ==
    \/ ChecksumCall(c)
    \/ ChecksumReturn(c)
    \/ ReadMarker(c)
    \/ ReadCached(c)
    \/ UnlinkMarker(c)
    \/ Fetch(c)
    \/ WriteMarker(c)
    \/ WritePayload(c)
    \/ Transform(c)
    \/ Fallback(c)

Act(c) ==
    \/ \E cache \in BOOLEAN : Download(c, cache)
    \/ Continue(c)

\* One caller that awaits each download before starting the next.
Next == \E c \in SeqCalls : Act(c)

Spec == Init /\ [][Next]_vars

\* Two callers that do not wait for one another: each invokes download for
\* the same caching job (one without serializer or deserializer) once, at any
\* moment.
InitConc == Init /\ serializer = "none" /\ deserializer = "none"

DownloadConcurrently(c) == stack[c] = <<>> /\ Download(c, TRUE)

NextConc == \E c \in ConcCalls : DownloadConcurrently(c) \/ Continue(c)

SpecConc == InitConc /\ [][NextConc]_vars

\* The same two callers when nothing fails: the transport always answers and
\* no file operation fails other than with 'file does not exist'.  The cache
\* is empty or holds the marker and payload an earlier call stored for an
\* earlier version of the remote.
StaleChecksum == <<97, 97>>
StaleCache ==
    [p \in Paths |->
        IF p = CacheChecksumPath THEN File(MarkerBytes(StaleChecksum)) ELSE File(<<>>)]

InitConv ==
    /\ stack = [c \in Calls |-> <<>>]
    /\ files \in {[p \in Paths |-> NoFile], StaleCache}
    /\ log = [c \in Calls |-> <<>>]
    /\ io = [c \in Calls |-> <<>>]
    /\ start = [c \in Calls |-> [p \in Paths |-> NoFile]]
    /\ prev = [c \in Calls |-> NoPrev]
    /\ serializer = "none" /\ deserializer = "none"
    /\ writer = [p \in Paths |-> 0]
    /\ paired = files[CachePath].exists
    /\ apps = [c \in Calls |-> <<>>]
    /\ pathsOf = NoPaths /\ req = NoRequest /\ mock = NoMock /\ view = NoView
    /\ layered = NoLayered /\ web = NoWeb /\ panels = NoPanels

Unfailing ==
    \A c \in Calls : \A i \in 1..Len(io[c]) : io[c][i].res \in {"none", "ENOENT"}

NextConv ==
    \E c \in ConcCalls :
        \/ DownloadConcurrently(c) /\ Unfailing'
        \/ Continue(c) /\ Unfailing'

SpecConv == InitConv /\ [][NextConv]_vars

\* ------------------------------------------------------------ cache paths
\* lines 38-41 on their own: a downloader with some cache root is given a job
\* with some id and checksumExtension and computes the two cache paths.
InitPaths ==
    /\ InitDownloader /\ serializer = "none" /\ deserializer = "none"
    /\ req = NoRequest /\ mock = NoMock /\ view = NoView
    /\ layered = NoLayered /\ web = NoWeb /\ panels = NoPanels
    /\ \E root \in Roots, id \in Ids, ext \in Extensions :
          pathsOf = [NoPaths EXCEPT !.root = root, !.id = id, !.ext = ext]

\* lines 40-41
ComputePaths ==
    /\ ~pathsOf.computed
    /\ pathsOf' = [pathsOf EXCEPT
                      !.computed = TRUE,
                      !.cachePath = PathJoin(pathsOf.root, pathsOf.id),
                      !.cacheChecksumPath =
                          PathJoin(pathsOf.root, IdPlus(pathsOf.id, pathsOf.ext))]
    /\ UNCHANGED <<stack, files, log, io, start, prev, serializer, deserializer,
                   writer, paired, apps, req, mock, view, layered, web, panels>>

NextPaths == ComputePaths

SpecPaths == InitPaths /\ [][NextPaths]_vars

\* --------------------------------------------------------- real transport
\* LowLevelDownloaderImpl.get (lines 160-178) on its own: one request, from
\* the call of get to whatever the network makes of it.  A URI is the sequence
\* of its characters.
UriHttp == <<"h", "t", "t", "p", ":", "/", "/", "h">>
UriHttps == <<"h", "t", "t", "p", "s", ":", "/", "/", "h">>
Uris == {UriHttp, UriHttps}

\* String.prototype.indexOf, counting from 0; -1 when ch does not occur
IndexOf(str, ch) ==
    IF \E i \in 1..Len(str) : str[i] = ch
    THEN (CHOOSE i \in 1..Len(str) : str[i] = ch /\ \A j \in 1..(i - 1) : str[j] # ch) - 1
    ELSE -1

\* RemoteUriString.getProtocol: uri.slice(0, uri.indexOf(':') + 1)
GetProtocol(uri) == SubSeq(uri, 1, IndexOf(uri, ":") + 1)

\* Response bodies: the chunks the response stream delivers, in order.
Bodies == SeqsUpTo(PayloadBuffers, MaxChunks)

\* Buffer.concat(chunks)
RECURSIVE Concat(_)
Concat(chunks) == IF chunks = <<>> THEN <<>> ELSE Head(chunks) \o Concat(Tail(chunks))

InitLld ==
    /\ InitDownloader /\ serializer = "none" /\ deserializer = "none"
    /\ pathsOf = NoPaths
    /\ req = NoRequest /\ mock = NoMock /\ view = NoView
    /\ layered = NoLayered /\ web = NoWeb /\ panels = NoPanels

LldStep(r) ==
    /\ req' = r
    /\ UNCHANGED <<stack, files, log, io, start, prev, serializer, deserializer,
                   writer, paired, apps, pathsOf, mock, view, layered, web, panels>>

\* lines 161-176: get(uri, options) creates the promise and hands the request
\* to http.get or https.get with the response callback, and nothing else.
LldImplGet(uri, timeout) ==
    /\ req.phase = "idle"
    /\ LldStep([req EXCEPT
                  !.phase = "sent",
                  !.handler = IF GetProtocol(uri) = <<"h", "t", "t", "p", ":">>
                              THEN "http" ELSE "https",
                  !.timeout = timeout,
                  !.promise = "pending"])

\* lines 164-170: the response callback.
Respond(status, body) ==
    /\ req.phase = "sent"
    /\ IF status # StatusOk
       THEN LldStep([req EXCEPT !.phase = "refused", !.status = status,
                                !.promise = "rejected"])
       ELSE LldStep([req EXCEPT !.phase = "streaming", !.status = status,
                                !.body = body])

\* line 168: promisifyAsyncIterable collects the next chunk of the response.
ReceiveChunk ==
    /\ req.phase = "streaming" /\ req.body # <<>>
    /\ LldStep([req EXCEPT !.chunks = Append(@, Head(req.body)), !.body = Tail(@)])

\* line 168: the response ended; the promise resolves with the joined chunks.
EndOfBody ==
    /\ req.phase = "streaming" /\ req.body = <<>>
    /\ LldStep([req EXCEPT !.phase = "ended", !.promise = "resolved",
                            !.value = Concat(req.chunks)])

\* line 168: the response stream failed; the promise the outer one was
\* resolved with rejects.
BodyError ==
    /\ req.phase = "streaming"
    /\ LldStep([req EXCEPT !.phase = "aborted", !.promise = "rejected"])

\* The connection failed before a response: the request emits 'error'.
\* Lines 171-175 keep no reference to the request and register no listener
\* on it, so neither resolve nor reject is called.
ConnectionError ==
    /\ req.phase = "sent"
    /\ LldStep([req EXCEPT !.phase = "errored"])

\* options.timeout elapsed: the request emits 'timeout', for which lines
\* 171-175 register no listener either.
Timeout ==
    /\ req.phase = "sent" /\ req.timeout /\ ~req.timedOut
    /\ LldStep([req EXCEPT !.timedOut = TRUE])

NextLld ==
    \/ \E uri \in Uris, timeout \in BOOLEAN : LldImplGet(uri, timeout)
    \/ \E status \in {StatusOk, StatusNotFound}, body \in Bodies : Respond(status, body)
    \/ ReceiveChunk
    \/ EndOfBody
    \/ BodyError
    \/ ConnectionError
    \/ Timeout

SpecLld == InitLld /\ [][NextLld]_vars

\* -------------------------------------------------------- fixture transport
\* LowLevelDownloaderMock (lines 189-205) on its own: a record from URIs to
\* fixtures, and get(uri).  A fixture is a Buffer, a string or an object (here
\* an array of digits); a URI the record has no entry for reads as undefined.
NoFixture == [kind |-> "undefined", data |-> <<>>]
Fixtures ==
    {[kind |-> "buffer", data |-> b] : b \in SeqsUpTo({1, 200}, MaxFixtureLen)}
    \cup {[kind |-> "string", data |-> str] : str \in SeqsUpTo({97, 233}, MaxFixtureLen)}
    \cup {[kind |-> "object", data |-> a] : a \in SeqsUpTo({0, 1}, MaxFixtureLen)}

\* JSON.stringify of an array of digits: '[' items separated by ',' ']'
RECURSIVE JoinComma(_)
JoinComma(a) ==
    IF a = <<>> THEN <<>>
    ELSE IF Len(a) = 1 THEN <<48 + a[1]>>
    ELSE <<48 + a[1], 44>> \o JoinComma(Tail(a))
JsonStringify(a) == <<91>> \o JoinComma(a) \o <<93>>

\* line 192: `!this.options.fixtures[uri]`: undefined and the empty string
\* are falsy, every Buffer and every other object is truthy.
Truthy(fx) == fx.kind # "undefined" /\ ~(fx.kind = "string" /\ fx.data = <<>>)

InitMock ==
    /\ InitDownloader /\ serializer = "none" /\ deserializer = "none"
    /\ pathsOf = NoPaths /\ req = NoRequest /\ view = NoView
    /\ layered = NoLayered /\ web = NoWeb /\ panels = NoPanels
    /\ \E fx \in [Uris -> Fixtures \cup {NoFixture}] :
          mock = [NoMock EXCEPT !.fixtures = fx]

\* lines 191-204: get(uri)
LldMockGet(uri) ==
    /\ LET fixture == mock.fixtures[uri]
       IN mock' = [mock EXCEPT
                     !.uri = uri,
                     !.promise = IF Truthy(fixture) THEN "resolved" ELSE "rejected",
                     !.value =
                         IF ~Truthy(fixture) THEN <<>>
                         ELSE IF fixture.kind = "buffer" THEN fixture.data
                         ELSE IF fixture.kind = "string" THEN Utf8Encode(fixture.data)
                         ELSE Utf8Encode(JsonStringify(fixture.data))]
    /\ UNCHANGED <<stack, files, log, io, start, prev, serializer, deserializer,
                   writer, paired, apps, pathsOf, req, view, layered, web, panels>>

NextMock == \E uri \in Uris : LldMockGet(uri)

SpecMock == InitMock /\ [][NextMock]_vars

\* ------------------------------------------------------------ preview panel
\* ViewProvider (lines 233-405): one preview panel at a time over a workspace
\* of documents.  A path is the sequence of its '/'-separated segments below
\* the directory of pack.mcmeta (below the workspace folder when there is no
\* pack.mcmeta), the file extension being its last element; a text is the
\* sequence of its characters, an identifier the sequence of its parts.
FileA == <<"data", "ns", "worldgen", "noise", "a", ".json">>
FileB == <<"data", "ns", "worldgen", "density_function", "sub", "b", ".json">>
FileV == <<"data", "minecraft", "worldgen", "noise", "v", ".json">>
FileC == <<"data", "ns", "worldgen", "biome", "c", ".json">>
WorkspaceFiles == {FileA, FileB, FileV, FileC}
FileTexts == {<<49>>, <<50>>}

\* lines 234-243
Types ==
    {[key |-> "worldgen/noise", dir |-> <<"worldgen", "noise">>],
     [key |-> "worldgen/density_function", dir |-> <<"worldgen", "density_function">>]}
Keys == {t.key : t \in Types}

NoEntry == [has |-> FALSE, text |-> <<>>]
Entry(text) == [has |-> TRUE, text |-> text]

RECURSIVE JoinSlash(_)
JoinSlash(segs) ==
    IF segs = <<>> THEN <<>>
    ELSE IF Len(segs) = 1 THEN segs
    ELSE <<Head(segs), "/">> \o JoinSlash(Tail(segs))

\* glob `data/*/<dir>/**/*.json` below the pack directory (line 300)
GlobMatch(file, type) ==
    /\ Len(file) >= 6
    /\ file[1] = "data"
    /\ SubSeq(file, 3, 4) = type.dir
    /\ file[Len(file)] = ".json"

\* minimatch(fsPath, `**/${match}`) (line 281): the pattern may start at any
\* directory of the path.
Minimatch(file, type) ==
    \E k \in 0..Len(file) : GlobMatch(SubSeq(file, k + 1, Len(file)), type)

\* shared.ts RESOURCE_REGEX:
\* ^data\/([^\/]+)\/((?:tags\/)?(?:worldgen\/)?[a-z_]+)\/(.*)(\.json)$
\* The type name is one segment after the optional `tags/` and `worldgen/`,
\* the longest such prefix winning; group 1 is the namespace, group 3 the
\* rest up to the extension.
LowerNames ==
    {"data", "ns", "minecraft", "tags", "worldgen", "noise", "density_function",
     "biome", "sub", "a", "b", "c", "v"}
TypeSegment(file) ==
    LET fits(t) ==
            /\ t < Len(file) - 1
            /\ file[t] \in LowerNames
            /\ SubSeq(file, 3, t - 1) \in
                  {<<>>, <<"tags">>, <<"worldgen">>, <<"tags", "worldgen">>}
        cands == {t \in 3..5 : fits(t)}
    IN IF cands = {} THEN 0 ELSE CHOOSE t \in cands : \A u \in cands : u <= t
ResourceMatch(file) ==
    LET t == TypeSegment(file)
    IN IF Len(file) >= 5 /\ file[1] = "data" /\ file[Len(file)] = ".json" /\ t # 0
       THEN [ok |-> TRUE, namespace |-> file[2],
             path |-> JoinSlash(SubSeq(file, t + 1, Len(file) - 1))]
       ELSE [ok |-> FALSE, namespace |-> "", path |-> <<>>]

\* line 305: `${m[1]}:${m[3]}`
Identifier(m) == <<m.namespace, ":">> \o m.path

\* What the summary of the remote holds for a type: path -> value, a value
\* being an array of digits.
VanillaSummary(key) ==
    IF key = "worldgen/noise"
    THEN {[path |-> <<"v">>, value |-> <<1>>], [path |-> <<"u">>, value |-> <<0>>]}
    ELSE {[path |-> <<"sub", "/", "b">>, value |-> <<0>>]}

\* line 391: 'minecraft:' + path
VanillaIdentifier(path) == <<"minecraft", ":">> \o path

Identifiers ==
    {Identifier(ResourceMatch(f)) : f \in {g \in WorkspaceFiles : ResourceMatch(g).ok}}
    \cup {VanillaIdentifier(e.path) : e \in UNION {VanillaSummary(k) : k \in Keys}}

\* lines 386-393: what one download of getVanillaData contributes: nothing
\* when download returned undefined, else every entry under 'minecraft:' +
\* path with the JSON text of its value.
VanillaEntries(key, downloaded) ==
    [id \in Identifiers |->
        IF downloaded /\ \E e \in VanillaSummary(key) : VanillaIdentifier(e.path) = id
        THEN Entry(JsonStringify(
                 (CHOOSE e \in VanillaSummary(key) : VanillaIdentifier(e.path) = id).value))
        ELSE NoEntry]

DataWithUnlessPresent(data, key, identifier, content) ==
    IF data[key][identifier].has THEN data
    ELSE [data EXCEPT ![key][identifier] = Entry(content)]

\* lines 310, 330: data[key][identifier] = content
DataWith(data, key, identifier, content) ==
    [data EXCEPT ![key][identifier] = Entry(content)]

\* lines 298-313: the dependencies of the panel, the files the globs find
\* below the pack directory that RESOURCE_REGEX matches.
Dependencies(docs) ==
    LET found == {ft \in WorkspaceFiles \X Types :
                     /\ docs[ft[1]].has
                     /\ GlobMatch(ft[1], ft[2])
                     /\ ResourceMatch(ft[1]).ok}
    IN {[uri |-> ft[1], key |-> ft[2].key,
         identifier |-> Identifier(ResourceMatch(ft[1]))] : ft \in found}

\* lines 301-312 over the files found: every file's content is stored under
\* its identifier.
RECURSIVE Load(_, _, _)
Load(data, deps, docs) ==
    IF deps = {} THEN data
    ELSE LET d == CHOOSE x \in deps : TRUE
         IN Load(DataWith(data, d.key, d.identifier, docs[d.uri].text),
                 deps \ {d}, docs)

\* lines 316-324: updateView()
UpdateView(v) ==
    [v EXCEPT
       !.posts = @ + 1,
       !.message = [type |-> "update", fileType |-> v.fileType, fileUri |-> v.fileUri,
                    fileResource |-> v.fileResource, data |-> v.data]]

ViewStep(v) ==
    /\ view' = v
    /\ UNCHANGED <<stack, files, log, io, start, prev, serializer, deserializer,
                   writer, paired, apps, pathsOf, req, mock,
                   layered, web, panels>>

InitView ==
    /\ InitDownloader /\ serializer = "none" /\ deserializer = "none"
    /\ pathsOf = NoPaths /\ req = NoRequest /\ mock = NoMock
    /\ layered = NoLayered /\ web = NoWeb /\ panels = NoPanels
    /\ \E docs \in [WorkspaceFiles -> {NoEntry} \cup {Entry(t) : t \in FileTexts}],
          pack \in BOOLEAN :
          /\ docs[FileA].has
          /\ view = [NoView EXCEPT
                       !.docs = docs,
                       !.pack = pack,
                       !.vanilla = [k \in Keys |-> VanillaEntries(k, FALSE)],
                       !.data = [k \in Keys |-> VanillaEntries(k, FALSE)]]

\* lines 372-404: getVanillaData().  The first call downloads the summary of
\* every type (each download returning a value or undefined) and keeps the
\* result, failures included; later calls return what was kept.
GetVanillaData(v, downloaded) ==
    IF v.fetched THEN v.vanilla ELSE [k \in Keys |-> VanillaEntries(k, downloaded[k])]

\* lines 255-267, 273-347: open(document) with initPanel, taken as one step.
\* `readFails` is whether a read of line 309 fails.
Open(file, downloaded, readFails) ==
    /\ view.phase # "open"
    /\ view.docs[file].has
    /\ LET vanilla == GetVanillaData(view, downloaded)
           deps == IF view.pack THEN Dependencies(view.docs) ELSE {}
           mine == {d \in deps : d.uri = file}
           failed == [view EXCEPT
                        !.phase = "failed", !.fileUri = file, !.fileType = "",
                        !.fileResource = Undefined, !.atInit = {}, !.dependencies = {},
                        !.posts = 0, !.message = <<>>,
                        !.data = [k \in Keys |-> VanillaEntries(k, FALSE)]]
       IN IF ~\E t \in Types : Minimatch(file, t)
          THEN ViewStep(failed)
          ELSE IF readFails /\ deps # {}
          THEN ViewStep([failed EXCEPT !.fetched = TRUE, !.vanilla = vanilla])
          ELSE ViewStep([view EXCEPT
                           !.phase = "open",
                           !.fetched = TRUE,
                           !.vanilla = vanilla,
                           !.fileUri = file,
                           !.fileType = (CHOOSE t \in Types : Minimatch(file, t)).key,
                           !.fileResource =
                               IF mine = {} THEN Undefined
                               ELSE Str((CHOOSE d \in mine : TRUE).identifier),
                           !.atInit = {f \in WorkspaceFiles : view.docs[f].has},
                           !.dependencies = deps,
                           !.data = Load(vanilla, deps, view.docs),
                           !.posts = 0,
                           !.message = <<>>])

\* lines 339-343: the webview reports 'ready'.
Ready ==
    /\ view.phase = "open"
    /\ view.posts < MaxPosts
    /\ ViewStep(UpdateView(view))

\* lines 326-333: the text of an open document changes, after a panel was
\* opened; the handler runs while the subscription of the panel is alive.
ChangeTextDocument(file, text) ==
    /\ view.phase \in {"open", "disposed"}
    /\ view.docs[file].has
    /\ view.docs[file].text # text
    /\ (view.phase = "open" /\ \E d \in view.dependencies : d.uri = file)
          => view.posts < MaxPosts
    /\ LET v == [view EXCEPT !.docs[file] = Entry(text)]
           deps == {d \in view.dependencies : d.uri = file}
       IN IF view.phase = "open" /\ deps # {}
          THEN LET d == CHOOSE x \in deps : TRUE
               IN ViewStep(UpdateView(
                      [v EXCEPT !.data = DataWith(v.data, d.key, d.identifier, text)]))
          ELSE ViewStep(v)

\* A file is added to the workspace while the panel is open; no handler of
\* the panel hears of it.
CreateFile(file, text) ==
    /\ view.phase = "open"
    /\ ~view.docs[file].has
    /\ ViewStep([view EXCEPT !.docs[file] = Entry(text)])

\* lines 335-337: the panel is disposed and with it the subscription.
Dispose ==
    /\ view.phase = "open"
    /\ ViewStep([view EXCEPT !.phase = "disposed"])

NextView ==
    \/ \E file \in WorkspaceFiles, readFails \in BOOLEAN :
          \E downloaded \in IF view.fetched THEN {[k \in Keys |-> TRUE]}
                             ELSE [Keys -> BOOLEAN] :
             Open(file, downloaded, readFails)
    \/ Ready
    \/ \E file \in WorkspaceFiles, text \in FileTexts : ChangeTextDocument(file, text)
    \/ \E file \in WorkspaceFiles, text \in FileTexts : CreateFile(file, text)
    \/ Dispose

SpecView == InitView /\ [][NextView]_vars

\* ------------------------------------------------------------ LayeredSampler
\* view/samplers.ts lines 144-168.  A value of type unknown is its typeof
\* and its text; a sampler is its class, its fields and, for a delegate, an
\* identity (0 is undefined).
MaxLayers == 2           \* most layers a LayeredSampler is constructed with
MaxSetConfigs == 2       \* most setConfig calls on one LayeredSampler

LayerNames == {"biomes", "depth", "0", "1"}
\* The integer-like keys, ascending: Object.keys lists them first.
IndexNames == <<"0", "1">>
DelegateIds == 1..MaxLayers
ConfigValues ==
    {StringValue(n) : n \in LayerNames \cup {"", "other"}} \cup {NumberValue, UndefinedValue}

Includes(names, v) == \E i \in 1..Len(names) : names[i] = v

\* A Record<string, Sampler> as its own properties in insertion order.
LayerRecords ==
    {ls \in UNION {[1..n -> [name : LayerNames, delegate : DelegateIds]] : n \in 1..MaxLayers} :
        \A i, j \in 1..Len(ls) : ls[i].name = ls[j].name => i = j}

\* Object.keys(layers)
ObjectKeys(layers) ==
    LET names == [i \in 1..Len(layers) |-> layers[i].name]
        Present(n) == Includes(names, n)
        Named(n) == ~Includes(IndexNames, n)
    IN SelectSeq(IndexNames, Present) \o SelectSeq(names, Named)

\* layers[name]
Property(layers, name) ==
    IF \E i \in 1..Len(layers) : layers[i].name = name
    THEN (CHOOSE e \in {layers[i] : i \in 1..Len(layers)} : e.name = name).delegate
    ELSE 0

NoiseSampler == [EmptySampler EXCEPT !.class = "NoiseSampler"]

\* lines 149-153: the constructor
LayeredSampler(layers) ==
    LET layerNames == ObjectKeys(layers)
        first == IF layerNames = <<>> THEN UndefinedValue ELSE StringValue(layerNames[1])
    IN [class |-> "LayeredSampler", layers |-> layers, layerNames |-> layerNames,
        currentLayer |-> first,
        currentDelegate |-> IF layerNames = <<>> THEN 0 ELSE Property(layers, layerNames[1])]

SetConfigOfAnyString(s, value) ==
    IF value.type = "string"
    THEN [s EXCEPT !.currentLayer = value, !.currentDelegate = Property(s.layers, value.val)]
    ELSE s

\* lines 163-168: setConfig(value)
SetConfig(s, value) ==
    IF value.type = "string" /\ Includes(s.layerNames, value.val)
    THEN [s EXCEPT !.currentLayer = value, !.currentDelegate = Property(s.layers, value.val)]
    ELSE s

InitSampler ==
    /\ InitDownloader /\ serializer = "none" /\ deserializer = "none"
    /\ pathsOf = NoPaths /\ req = NoRequest /\ mock = NoMock /\ view = NoView
    /\ web = NoWeb /\ panels = NoPanels
    /\ \E layers \in LayerRecords :
          layered = [NoLayered EXCEPT !.sampler = LayeredSampler(layers),
                                      !.before = LayeredSampler(layers)]

\* One call of setConfig; the sampler before it and the value are kept.
SetConfigCall(value) ==
    /\ layered.calls < MaxSetConfigs
    /\ layered' = [sampler |-> SetConfig(layered.sampler, value),
                   before |-> layered.sampler,
                   calls |-> layered.calls + 1,
                   value |-> value]
    /\ UNCHANGED <<stack, files, log, io, start, prev, serializer, deserializer,
                   writer, paired, apps, pathsOf, req, mock, view, web, panels>>

NextSampler == \E value \in ConfigValues : SetConfigCall(value)

SpecSampler == InitSampler /\ [][NextSampler]_vars

\* ------------------------------------------------------------ the webview
\* The script of the preview webview, in the two forms the repository has:
\* "script" (view/view.ts lines 209-357) and "app" (the preact App,
\* downloader.ts lines 421-531, with InteractiveCanvas2D, view/view.ts lines
\* 377-510), and the host's side of the messages (downloader.ts lines
\* 316-345).  A scale is held as its logarithm to base 2, and a wheel event
\* as the whole number of steps by which it moves that logarithm.
MaxUpdates == 1          \* most updates the host posts for document changes
MaxEvents == 2           \* most wheel events and picks of the user in one webview
MaxScaleExp == 4         \* largest |log2| of a persisted scale
ScaleLimit == 3          \* 8 = 2^3 and 1/8 = 2^-3
CanvasLimit == 4         \* 16 = 2^4 and 1/16 = 2^-4

Variants == {"script", "app"}
FileTypes == {"worldgen/noise", "dimension"}
PersistedScales == {NoScale} \cup {Scale(e) : e \in (0 - MaxScaleExp)..MaxScaleExp}
PersistedConfigs ==
    {UndefinedValue, StringValue("depth"), StringValue("other"), StringValue("")}
WheelSteps == {0 - 2, 0 - 1, 1, 2}
PickedLayers == {"temperature", "depth"}

\* view/samplers.ts lines 311-319: the layers of a dimension
DimensionLayers ==
    <<[name |-> "biomes", delegate |-> 1], [name |-> "temperature", delegate |-> 2],
      [name |-> "humidity", delegate |-> 3], [name |-> "continentalness", delegate |-> 4],
      [name |-> "erosion", delegate |-> 5], [name |-> "weirdness", delegate |-> 6],
      [name |-> "depth", delegate |-> 7]>>

\* view/samplers.ts lines 273-323: createSampler(fileType, json, seed)
CreateSampler(fileType) ==
    IF fileType = "worldgen/noise" THEN NoiseSampler
    ELSE IF fileType = "dimension" THEN LayeredSampler(DimensionLayers)
    ELSE EmptySampler

\* sampler.setConfig and sampler.renderConfig exist
Configurable(s) == s.class = "LayeredSampler"

\* the value converted to a boolean
TruthyValue(v) == v.type = "string" /\ v.val # ""

\* state?.viewScale ?? 1
ScaleOrOne(s) == IF s.type = "undefined" THEN Scale(0) ELSE s

\* s > 1/8 && s < 8, and the canvas's newScale > minScale && newScale < maxScale
InRange(s, limit) == s.exp > 0 - limit /\ s.exp < limit

\* downloader.ts line 449: useViewState('viewScale', () => 1)
StartScaleOfApp(s) == ScaleOrOne(s)

\* view/view.ts line 225
StartScale(s) == IF InRange(ScaleOrOne(s), ScaleLimit) THEN ScaleOrOne(s) ELSE Scale(0)

WebStep(w) ==
    /\ web' = w
    /\ UNCHANGED <<stack, files, log, io, start, prev, serializer, deserializer,
                   writer, paired, apps, pathsOf, req, mock, view, layered, panels>>

\* A webview restored or opened: what an earlier run of either form of the
\* script persisted, and the type of the file it previews.
InitWeb ==
    /\ InitDownloader /\ serializer = "none" /\ deserializer = "none"
    /\ pathsOf = NoPaths /\ req = NoRequest /\ mock = NoMock /\ view = NoView
    /\ layered = NoLayered /\ panels = NoPanels
    /\ \E variant \in Variants, fileType \in FileTypes,
          scale \in PersistedScales, config \in PersistedConfigs :
          web = [NoWeb EXCEPT !.variant = variant, !.fileType = fileType,
                              !.persisted = [viewScale |-> scale, viewConfig |-> config]]

\* downloader.ts lines 339-345: the host registers its message handler and
\* then sets the HTML of the webview.
InitPanel ==
    /\ web.host = "closed"
    /\ WebStep([web EXCEPT !.host = "open"])

\* view/view.ts lines 211-239 and 357: the script runs to its end.
LoadScript ==
    [web EXCEPT !.phase = "running",
                !.sampler = EmptySampler,
                !.viewScale = StartScale(web.persisted.viewScale),
                !.viewConfig = web.persisted.viewConfig,
                !.listening = TRUE,
                !.ready = @ + 1]

\* downloader.ts lines 423-452: the module renders App once and posts
\* 'ready'; the effects of the first render (the message listener, the
\* canvas listeners) are pending, and the listener will see the viewConfig
\* of this render.
LoadApp ==
    [web EXCEPT !.phase = "rendered",
                !.sampler = EmptySampler,
                !.viewScale = StartScaleOfApp(web.persisted.viewScale),
                !.persisted.viewScale = StartScaleOfApp(web.persisted.viewScale),
                !.viewConfig = web.persisted.viewConfig,
                !.captured = web.persisted.viewConfig,
                !.ready = @ + 1]

LoadWebview ==
    /\ web.host = "open" /\ web.phase = "unloaded"
    /\ WebStep(IF web.variant = "script" THEN LoadScript ELSE LoadApp)

\* downloader.ts lines 461-485 and view/view.ts lines 416-477: the pending
\* effects of the first render run.
RunEffects ==
    /\ web.phase = "rendered"
    /\ WebStep([web EXCEPT !.phase = "running", !.listening = TRUE, !.canvas = TRUE])

\* downloader.ts lines 339-343: the host receives 'ready' and answers.
HostReady(ok) ==
    /\ web.host = "open" /\ web.ready > 0
    /\ WebStep([web EXCEPT !.ready = @ - 1,
                           !.inbox = Append(@, [type |-> "update", ok |-> ok, answers |-> TRUE]),
                           !.answered = @ + 1])

\* downloader.ts lines 326-333: a dependency changes and the host posts.
HostChange(ok) ==
    /\ web.host = "open" /\ web.phase # "unloaded" /\ web.posted < MaxUpdates
    /\ WebStep([web EXCEPT !.inbox = Append(@, [type |-> "update", ok |-> ok, answers |-> FALSE]),
                           !.posted = @ + 1])

\* view/view.ts lines 241-256: update(message), with rerender
UpdateScript(w, message) ==
    IF ~message.ok THEN w
    ELSE LET created == CreateSampler(w.fileType)
         IN [w EXCEPT !.sampler = IF TruthyValue(w.viewConfig) /\ Configurable(created)
                                  THEN SetConfig(created, w.viewConfig)
                                  ELSE created,
                      !.canvas = TRUE,
                      !.replaced = TRUE]

\* downloader.ts lines 462-482: the handler of the first render
UpdateApp(w, message) ==
    IF ~message.ok THEN w
    ELSE LET created == CreateSampler(w.fileType)
         IN [w EXCEPT !.sampler = IF TruthyValue(w.captured) /\ Configurable(created)
                                  THEN SetConfig(created, w.captured)
                                  ELSE created,
                      !.frames = @ + 1,
                      !.replaced = TRUE]

\* The message event of the oldest update in flight is dispatched in the
\* webview: to the listener if one is registered, else to nobody.
Deliver ==
    /\ web.phase # "unloaded" /\ web.inbox # <<>>
    /\ LET message == Head(web.inbox)
           w == [web EXCEPT !.inbox = Tail(@)]
       IN IF ~web.listening
          THEN WebStep([w EXCEPT !.lost = Append(@, message)])
          ELSE WebStep([(IF web.variant = "script" THEN UpdateScript(w, message)
                                                   ELSE UpdateApp(w, message))
                           EXCEPT !.handled = @ + 1])

\* view/view.ts line 239: a resize rebuilds the canvas of the script.
Resize ==
    /\ web.variant = "script" /\ web.phase = "running" /\ ~web.canvas
    /\ WebStep([web EXCEPT !.canvas = TRUE])

WheelAlways(w, deltaY, limit) ==
    LET newScale == Scale(w.viewScale.exp + deltaY)
    IN [w EXCEPT !.viewScale = newScale, !.persisted.viewScale = newScale,
                 !.frames = @ + 1]

\* view/view.ts lines 315-322, and lines 445-452 with downloader.ts lines
\* 522-524 for the canvas of App
WheelListener(w, deltaY, limit) ==
    LET newScale == Scale(w.viewScale.exp + deltaY)
    IN IF InRange(newScale, limit)
       THEN [w EXCEPT !.viewScale = newScale, !.persisted.viewScale = newScale,
                      !.frames = @ + 1]
       ELSE w

Wheel(deltaY) ==
    /\ web.canvas /\ web.wheels + web.picks < MaxEvents
    /\ LET w == [web EXCEPT !.wheels = @ + 1, !.deltaY = deltaY]
       IN WebStep(WheelListener(w, deltaY, IF web.variant = "script" THEN ScaleLimit
                                                                     ELSE CanvasLimit))

\* view/view.ts lines 327-334 and downloader.ts lines 456-459: the user picks
\* a layer among those the current sampler rendered.
Pick(layer) ==
    /\ web.phase # "unloaded" /\ Configurable(web.sampler)
    /\ Includes(web.sampler.layerNames, layer)
    /\ web.wheels + web.picks < MaxEvents
    /\ WebStep([web EXCEPT !.sampler = SetConfig(@, StringValue(layer)),
                           !.viewConfig = StringValue(layer),
                           !.persisted.viewConfig = StringValue(layer),
                           !.frames = @ + 1,
                           !.picks = @ + 1,
                           !.picked = StringValue(layer),
                           !.replaced = FALSE])

NextWeb ==
    \/ InitPanel
    \/ LoadWebview
    \/ RunEffects
    \/ \E ok \in BOOLEAN : HostReady(ok)
    \/ \E ok \in BOOLEAN : HostChange(ok)
    \/ Deliver
    \/ Resize
    \/ \E deltaY \in WheelSteps : Wheel(deltaY)
    \/ \E layer \in PickedLayers : Pick(layer)

SpecWeb == InitWeb /\ [][NextWeb]_vars

\* ------------------------------------------------------------ vanilla data
\* ViewProvider.getVanillaData (lines 372-404) and the writes of initPanel
\* into the record it returns (lines 293-333), for panels that are
\* initialised concurrently.  A record is an object: a panel's data is
\* either an object of its own or the very object this.vanilla refers to.
MaxEdits == 1            \* most document changes the panels hear of
PanelIds == {1, 2}
PanelFiles == {FileA, FileV}

ClosedPanel ==
    [pc |-> "closed", ref |-> "own", data |-> <<>>, returned |-> <<>>,
     written |-> <<>>, files |-> {}]

SameObject(object) == [ref |-> "vanilla", val |-> object]

\* line 223: rfdc()
DeepClone(object) == [ref |-> "own", val |-> object]

\* The record a panel's `data` refers to.
DataOf(P, p) == IF P.panel[p].ref = "vanilla" THEN P.vanilla.val ELSE P.panel[p].data

\* lines 310, 330: data[key][identifier] = content in panel p
Assign(P, p, file, content) ==
    LET key == "worldgen/noise"
        identifier == Identifier(ResourceMatch(file))
        Q == [P EXCEPT !.panel[p].written = Append(@, [file |-> file, content |-> content])]
    IN IF P.panel[p].ref = "vanilla"
       THEN [Q EXCEPT !.vanilla.val = DataWith(@, key, identifier, content)]
       ELSE [Q EXCEPT !.panel[p].data = DataWith(@, key, identifier, content)]

PanelStep(P) ==
    /\ panels' = P
    /\ UNCHANGED <<stack, files, log, io, start, prev, serializer, deserializer,
                   writer, paired, apps, pathsOf, req, mock, view, layered, web>>

InitVanilla ==
    /\ InitDownloader /\ serializer = "none" /\ deserializer = "none"
    /\ pathsOf = NoPaths /\ req = NoRequest /\ mock = NoMock /\ view = NoView
    /\ layered = NoLayered /\ web = NoWeb
    /\ panels = [NoPanels EXCEPT !.panel = [p \in PanelIds |-> ClosedPanel]]

\* What getVanillaData returns to panel p from the memoized record.
Returned(P, p) ==
    LET copy == DeepClone(P.vanilla.val)
    IN [P EXCEPT !.panel[p].pc = "loading",
                 !.panel[p].ref = copy.ref,
                 !.panel[p].data = copy.val,
                 !.panel[p].returned = copy.val]

\* lines 291 and 373-395: initPanel calls getVanillaData, which returns a
\* copy of this.vanilla if that is set and else invokes one download per
\* type and awaits them.
GetVanillaDataCall(p) ==
    /\ panels.panel[p].pc = "closed"
    /\ IF panels.vanilla.set
       THEN PanelStep(Returned(panels, p))
       ELSE PanelStep([panels EXCEPT !.panel[p].pc = "downloading",
                                     !.downloads = @ + Cardinality(Keys)])

\* lines 386-403: the downloads of panel p's call have settled.
GetVanillaDataSettled(p, downloaded) ==
    /\ panels.panel[p].pc = "downloading"
    /\ PanelStep(Returned(
           [panels EXCEPT !.vanilla =
               [set |-> TRUE, val |-> [k \in Keys |-> VanillaEntries(k, downloaded[k])]]],
           p))

\* lines 299-312: one file the globs found is read and stored.
LoadFile(p, file, content) ==
    /\ panels.panel[p].pc = "loading"
    /\ file \notin panels.panel[p].files
    /\ PanelStep([Assign(panels, p, file, content) EXCEPT !.panel[p].files = @ \cup {file}])

\* lines 326-345: the panel listens and its HTML is set.
Listen(p) ==
    /\ panels.panel[p].pc = "loading"
    /\ PanelStep([panels EXCEPT !.panel[p].pc = "open"])

\* lines 326-333: a dependency of panel p changes.
ChangeDocument(p, file, content) ==
    /\ panels.panel[p].pc = "open"
    /\ file \in panels.panel[p].files
    /\ panels.edits < MaxEdits
    /\ PanelStep([Assign(panels, p, file, content) EXCEPT !.edits = @ + 1])

NextVanilla ==
    \E p \in PanelIds :
        \/ GetVanillaDataCall(p)
        \/ \E downloaded \in [Keys -> BOOLEAN] : GetVanillaDataSettled(p, downloaded)
        \/ \E file \in PanelFiles, content \in FileTexts : LoadFile(p, file, content)
        \/ Listen(p)
        \/ \E file \in PanelFiles, content \in FileTexts : ChangeDocument(p, file, content)

SpecVanilla == InitVanilla /\ [][NextVanilla]_vars

\* ------------------------------------------------------------ properties
Done(c) == Len(stack[c]) = 1 /\ stack[c][1].pc = "done"
Main(c) == stack[c][1]

\* Positions in io[c] of the main job's operations of one kind on one target.
Ops(c, op, target) ==
    {i \in 1..Len(io[c]) :
        io[c][i].job = "main" /\ io[c][i].op = op /\ io[c][i].target = target}
OpsWith(c, op, target, res) == {i \in Ops(c, op, target) : io[c][i].res = res}
Logged(c, job, level, msg) ==
    \E i \in 1..Len(log[c]) : log[c][i] = [level |-> level, msg |-> msg, job |-> job]

FetchFailed(c) == OpsWith(c, "get", "main", "transport") # {}
FetchInvoked(c) == Ops(c, "get", "main") # {}
ReadErrors(c) == \E i \in 1..Len(io[c]) : io[c][i].op = "read" /\ io[c][i].res = "EIO"
MarkerHolds(fs, cs) ==
    fs[CacheChecksumPath].exists /\ fs[CacheChecksumPath].data = MarkerBytes(cs)
Cached(c, fs) == LoadCached(Main(c), Ok(fs[CachePath].data))

\* C1: every download call, nested or not, ends by returning a value or
\* undefined; no frame ever rejects to its caller, whatever fails inside.
C1_NeverThrows ==
    \A c \in Calls : \A i \in 1..Len(stack[c]) :
        LET f == stack[c][i]
        IN /\ f.result.kind # "thrown"
           /\ f.pc = "done" <=> f.result.kind \in {"value", "undefined"}

C1_Witness ==
    /\ Done(1) /\ Main(1).cache
    /\ Main(1).result = RetUndefined
    /\ Logged(1, "checksum", "error", "download")
    /\ Logged(1, "main", "error", "download")
    /\ Logged(1, "main", "error", "fallback")

\* C2: cache hit.  With caching, when the checksum job returned the value the
\* stored marker holds and the payload is readable and deserializes and
\* transforms, the call returns transformer(deserializer(payload)) and the
\* transport is never asked for job.uri.
C2_CacheHitSkip ==
    \A c \in Calls :
        (/\ Done(c) /\ Main(c).cache
         /\ Main(c).checksum.known
         /\ MarkerHolds(start[c], Main(c).checksum.val)
         /\ start[c][CachePath].exists
         /\ Cached(c, start[c]).ok
         /\ ~ReadErrors(c))
        => /\ Main(c).result = RetValue(Cached(c, start[c]).val)
           /\ ~FetchInvoked(c)
           /\ ~Main(c).fetched

C2_Witness ==
    /\ Done(1) /\ Main(1).cache
    /\ Main(1).checksum.known
    /\ MarkerHolds(start[1], Main(1).checksum.val)
    /\ start[1][CachePath].exists
    /\ Logged(1, "main", "info", "skipped")
    /\ Main(1).result.kind = "value"

\* C3 as claimed: a failed transport fetch with a payload file in the cache
\* always ends in the transformed deserialized payload, never in undefined.
C3_Original ==
    \A c \in Calls :
        (Done(c) /\ Main(c).cache /\ FetchFailed(c) /\ start[c][CachePath].exists)
        => /\ Main(c).result.kind = "value"
           /\ Main(c).result.val = Cached(c, start[c]).val

\* C3: fallback.  When the transport fetch of job.uri fails and the payload
\* file exists, is readable and deserializes and transforms without error,
\* the call returns transformer(deserializer(payload)), whatever the marker.
C3_Fallback ==
    \A c \in Calls :
        (/\ Done(c) /\ Main(c).cache /\ FetchFailed(c)
         /\ start[c][CachePath].exists
         /\ OpsWith(c, "read", CachePath, "EIO") = {}
         /\ Cached(c, start[c]).ok)
        => Main(c).result = RetValue(Cached(c, start[c]).val)

C3_Witness ==
    /\ Done(1) /\ Main(1).cache /\ FetchFailed(1)
    /\ start[1][CachePath].exists
    /\ start[1][CacheChecksumPath].exists
    /\ Main(1).checksum.known
    /\ ~MarkerHolds(start[1], Main(1).checksum.val)
    /\ Logged(1, "main", "warn", "fellBack")
    /\ Main(1).result.kind = "value"

\* C4: no cache, no fallback.  When the transport fetch of job.uri fails and
\* there is no payload file (or the job has no cache policy), the call
\* returns undefined.
C4_NoCacheNoFallback ==
    \A c \in Calls :
        (/\ Done(c) /\ FetchFailed(c)
         /\ ~Main(c).cache \/ ~start[c][CachePath].exists)
        => Main(c).result = RetUndefined

C4_Witness ==
    /\ Done(1) /\ Main(1).cache /\ FetchFailed(1)
    /\ ~start[1][CachePath].exists
    /\ OpsWith(1, "read", CachePath, "ENOENT") # {}
    /\ Main(1).result = RetUndefined

WriteFailed(c, p) == OpsWith(c, "write", p, "EIO") # {}
Serialized(c) == Serializer(serializer, Main(c).buffer)
Transformed(c) == Transformer("json", Main(c).buffer)

\* C5: write-after-fetch.  After a call with caching whose checksum job
\* returned a checksum c and whose fetch of job.uri returned b, the marker
\* file holds c and a newline (unless its write failed) and the payload file
\* holds serializer(b) (unless the serializer or its write failed).
C5_WriteAfterFetch ==
    \A c \in Calls :
        (Done(c) /\ Main(c).cache /\ Main(c).checksum.known /\ Main(c).fetched)
        => /\ ~WriteFailed(c, CacheChecksumPath)
                => MarkerHolds(files, Main(c).checksum.val)
           /\ (Serialized(c).ok /\ ~WriteFailed(c, CachePath))
                => files[CachePath] = File(Serialized(c).val)

\* C6: cache-write independence.  After a successful fetch of job.uri, a
\* failed marker write is followed by the payload write all the same, a
\* failing serializer or payload write leaves a written marker in place, and in
\* both cases the call returns transformer(raw bytes).
C6_WriteIndependence ==
    \A c \in Calls :
        (Done(c) /\ Main(c).cache /\ Main(c).fetched)
        => /\ WriteFailed(c, CacheChecksumPath)
                => /\ Serialized(c).ok => Ops(c, "write", CachePath) # {}
                   /\ (Serialized(c).ok /\ ~WriteFailed(c, CachePath))
                        => files[CachePath] = File(Serialized(c).val)
           /\ (~Serialized(c).ok \/ WriteFailed(c, CachePath))
                => /\ AfterFetch(Main(c)) = "writeMarker"
                        => Ops(c, "write", CacheChecksumPath) # {}
                   /\ OpsWith(c, "write", CacheChecksumPath, "none") # {}
                        => MarkerHolds(files, Main(c).checksum.val)
           /\ (/\ WriteFailed(c, CacheChecksumPath) \/ WriteFailed(c, CachePath)
                  \/ ~Serialized(c).ok
               /\ Transformed(c).ok)
                => Main(c).result = RetValue(Transformed(c).val)

C6_Witness ==
    /\ Done(1) /\ Main(1).cache /\ Main(1).fetched
    /\ WriteFailed(1, CacheChecksumPath)
    /\ files[CachePath] = File(Serialized(1).val)
    /\ files[CachePath] # start[1][CachePath]
    /\ Main(1).result = RetValue(Transformed(1).val)

\* The checksum the checksum job returned to this call (line 43).
Fresh(c) == Main(c).out.checksum

DanglingMarkerAtStart(c) ==
    /\ Main(c).cache /\ Fresh(c).known
    /\ MarkerHolds(start[c], Fresh(c).val)
    /\ ~start[c][CachePath].exists

\* C7 as claimed: from a marker that matches the fresh checksum and no payload
\* file, any call whose fetch succeeds returns transformer(fetched bytes) and
\* leaves the marker holding the checksum and the payload file present.
C7_Original ==
    \A c \in Calls :
        (Done(c) /\ DanglingMarkerAtStart(c) /\ Main(c).fetched /\ Transformed(c).ok)
        => /\ Main(c).result = RetValue(Transformed(c).val)
           /\ MarkerHolds(files, Fresh(c).val)
           /\ files[CachePath].exists

\* C7: stale-marker cleanup.  From a marker that matches the fresh checksum and
\* no payload file, a call whose fetch succeeds and whose marker write,
\* serializer and payload write do not fail returns transformer(fetched bytes),
\* has written the marker anew with the checksum and has stored the payload.
C7_StaleMarkerCleanup ==
    \A c \in Calls :
        (Done(c) /\ DanglingMarkerAtStart(c) /\ Main(c).fetched /\ Transformed(c).ok)
        => /\ Main(c).result = RetValue(Transformed(c).val)
           /\ (/\ ~WriteFailed(c, CacheChecksumPath) /\ ~WriteFailed(c, CachePath)
               /\ Serialized(c).ok)
                => /\ OpsWith(c, "write", CacheChecksumPath, "none") # {}
                   /\ MarkerHolds(files, Fresh(c).val)
                   /\ files[CachePath] = File(Serialized(c).val)

C7_Witness ==
    /\ Done(1) /\ DanglingMarkerAtStart(1) /\ Main(1).fetched
    /\ OpsWith(1, "unlink", CacheChecksumPath, "none") # {}
    /\ MarkerHolds(files, Fresh(1).val)
    /\ files[CachePath].exists
    /\ Main(1).result.kind = "value"

\* C8: cold then warm.  Let a first call start from an empty cache, get
\* checksum c, fetch b and meet no I/O error.  It returns transformer(b) and
\* leaves marker and payload; a second call whose checksum job returns c again
\* (and that meets no I/O error) returns transformer(deserializer(stored
\* payload)) without a transport fetch of job.uri, which is the first result
\* when deserializer(serializer(b)) = b.
C8_ColdThenWarm ==
    \A c \in Calls :
        LET first == prev[c]
            ser == Serializer(serializer, first.buffer)
        IN (/\ stack[c] # <<>>
            /\ first.valid /\ first.cold /\ first.cache /\ ~first.faults
            /\ first.checksum.known /\ first.fetched
            /\ ser.ok /\ Transformer("json", first.buffer).ok)
           => /\ first.result = RetValue(Transformer("json", first.buffer).val)
              /\ MarkerHolds(start[c], first.checksum.val)
              /\ start[c][CachePath] = File(ser.val)
              /\ (/\ Done(c) /\ Main(c).cache
                  /\ Main(c).checksum = first.checksum
                  /\ ~ReadErrors(c)
                  /\ Cached(c, start[c]).ok)
                 => /\ ~FetchInvoked(c)
                    /\ Main(c).result = RetValue(Cached(c, start[c]).val)
                    /\ Deserializer(deserializer, ser.val) = Ok(first.buffer)
                         => Main(c).result = first.result

\* C9: checksum outage.  When the checksum job fails, the failure is logged,
\* the checksum is unknown (the marker is left as it was), there is no cache
\* hit and the call does the transport fetch of job.uri whatever the cache
\* holds; it returns undefined only if that fetch or the transformer fails too.
C9_ChecksumOutage ==
    \A c \in Calls :
        (Done(c) /\ Main(c).cache /\ ~Main(c).checksum.known)
        => /\ Logged(c, "checksum", "error", "download")
           /\ FetchInvoked(c)
           /\ ~Logged(c, "main", "info", "skipped")
           /\ Ops(c, "write", CacheChecksumPath) = {}
           /\ Ops(c, "unlink", CacheChecksumPath) = {}
           /\ files[CacheChecksumPath] = start[c][CacheChecksumPath]
           /\ Main(c).out.checksum = Undefined
           /\ (Main(c).fetched /\ Transformed(c).ok)
                => Main(c).result = RetValue(Transformed(c).val)
           /\ Main(c).result = RetUndefined
                => Logged(c, "main", "error", "download")

C9_Witness ==
    /\ Done(1) /\ Main(1).cache /\ ~Main(1).checksum.known
    /\ start[1][CacheChecksumPath].exists
    /\ start[1][CachePath].exists /\ Cached(1, start[1]).ok
    /\ Main(1).fetched
    /\ Main(1).result = RetValue(Transformed(1).val)

\* C10: no caching requested.  A call for a job without cache policy does one
\* transport fetch and nothing else, returns transformer(bytes) when the fetch
\* succeeds and undefined when it fails, leaves the cache store as it was and
\* leaves out unpopulated.
C10_NoCaching ==
    \A c \in Calls :
        (Done(c) /\ ~Main(c).cache)
        => /\ Len(io[c]) = 1
           /\ io[c][1].op = "get" /\ io[c][1].target = "main"
           /\ files = start[c]
           /\ Main(c).out = [cachePath |-> "", checksum |-> Undefined]
           /\ (Main(c).fetched /\ Transformed(c).ok)
                => Main(c).result = RetValue(Transformed(c).val)
           /\ (~Main(c).fetched \/ ~Transformed(c).ok)
                => Main(c).result = RetUndefined

C10_Witness ==
    /\ Done(1) /\ ~Main(1).cache
    /\ files[CachePath].exists /\ Cached(1, files).ok
    /\ FetchFailed(1)
    /\ Main(1).result = RetUndefined

Quiescent == \A c \in Calls : ~Running(c)
CacheHit(c) == Done(c) /\ Logged(c, "main", "info", "skipped")

\* C11: marker/payload pairing.  Whenever no call is in flight, a marker file
\* on disk was written by the same call as the payload file on disk, so a
\* call that returns from the cache-hit fast path returns a payload written
\* by the call that wrote the marker it matched.
C11_MarkerPayloadPairing ==
    /\ Quiescent /\ files[CacheChecksumPath].exists
          => files[CachePath].exists /\ paired
    /\ \A c \in Calls : CacheHit(c) => paired

\* Positions in io[c] of the transport requests made for one job of the call.
Gets(c, job) == {i \in 1..Len(io[c]) : io[c][i].op = "get" /\ io[c][i].job = job}
FallbackEntered(c) ==
    Logged(c, "main", "warn", "fellBack") \/ Logged(c, "main", "error", "fallback")

\* C13: no retry.  A call invokes the transport at most once for the checksum
\* URI and at most once for job.uri; when the fetch of job.uri failed in a
\* caching call, what follows it is exactly one read of the payload file (the
\* fallback) and no further transport request.
C13_NoRetry ==
    \A c \in Calls :
        /\ Cardinality(Gets(c, "checksum")) <= 1
        /\ Cardinality(Gets(c, "main")) <= 1
        /\ (Done(c) /\ Main(c).cache /\ FetchFailed(c))
             => \A g \in OpsWith(c, "get", "main", "transport") :
                  /\ Cardinality({i \in Ops(c, "read", CachePath) : i > g}) = 1
                  /\ \A i \in 1..Len(io[c]) : i > g => io[c][i].op = "read"

C13_Witness ==
    /\ Done(1) /\ Main(1).cache /\ FetchFailed(1)
    /\ Cardinality(Gets(1, "checksum")) = 1
    /\ Main(1).checksum.known
    /\ OpsWith(1, "read", CachePath, "EIO") # {}
    /\ Logged(1, "main", "warn", "fellBack")

\* C14: fetch outcome routing.  When the fetch of job.uri succeeds, a caching
\* call attempts the cache writes and returns transformer(fetched bytes), and
\* the stale-cache fallback is entered only when that fetch failed.
C14_FetchOutcomeRouting ==
    \A c \in Calls :
        (Done(c) /\ Main(c).cache)
        => /\ (Main(c).fetched /\ Transformed(c).ok)
                => /\ Main(c).result = RetValue(Transformed(c).val)
                   /\ \E i \in 1..Len(apps[c]) : apps[c][i].fn = "serializer"
           /\ FallbackEntered(c) => FetchFailed(c)

\* The call read the payload file before any transport request for job.uri.
FastPathTaken(c) ==
    \E i \in Ops(c, "read", CachePath) : \A g \in Gets(c, "main") : i < g

\* C15: marker format.  A marker the call wrote holds the checksum's bytes
\* followed by one newline, and the call takes the cache-hit fast path exactly
\* when it could read the marker file and the content it found is the fresh
\* checksum followed by a newline (checksums here are ASCII text, one byte
\* per character).
C15_MarkerFormat ==
    \A c \in Calls :
        (Done(c) /\ Main(c).cache)
        => /\ OpsWith(c, "write", CacheChecksumPath, "none") # {}
                => files[CacheChecksumPath] =
                     [exists |-> TRUE, data |-> Append(Main(c).checksum.val, NL)]
           /\ FastPathTaken(c)
                <=> /\ Main(c).checksum.known
                    /\ OpsWith(c, "read", CacheChecksumPath, "none") # {}
                    /\ start[c][CacheChecksumPath].data = Append(Main(c).checksum.val, NL)

C15_Witness ==
    /\ CacheHit(1)
    /\ prev[1].valid /\ prev[1].cold /\ prev[1].fetched
    /\ prev[1].checksum = Main(1).checksum
    /\ Len(Main(1).checksum.val) = MaxChecksumLen
    /\ start[1][CacheChecksumPath].data = Append(Main(1).checksum.val, NL)

\* The nested checksum download of the call returned a checksum.
ChecksumObtained(c) ==
    /\ \E i \in Gets(c, "checksum") : io[c][i].res = "none"
    /\ ~Logged(c, "checksum", "error", "download")
ReturnedCached(c) ==
    /\ Main(c).result.kind = "value"
    /\ Logged(c, "main", "info", "skipped") \/ Logged(c, "main", "warn", "fellBack")

\* C16 as stated: on every return of a caching call out.cachePath is the
\* payload path and out.checksum is the checksum of the data the call
\* returned: when the call returned the cached payload, the checksum stored
\* in the marker beside it.
C16_Original ==
    \A c \in Calls :
        (Done(c) /\ Main(c).cache)
        => /\ Main(c).out.cachePath = CachePath
           /\ Main(c).out.checksum.known <=> ChecksumObtained(c)
           /\ (ReturnedCached(c) /\ Main(c).out.checksum.known)
                => MarkerHolds(files, Main(c).out.checksum.val)

\* C16: on every return of a caching call out.cachePath is the payload path
\* and out.checksum is what the checksum job returned in this call (the
\* fresh checksum the call compared the marker with), undefined exactly when
\* the checksum job returned none.
C16_OutSideChannel ==
    \A c \in Calls :
        (Done(c) /\ Main(c).cache)
        => /\ Main(c).out.cachePath = CachePath
           /\ Main(c).out.checksum = Main(c).checksum
           /\ Main(c).out.checksum.known <=> ChecksumObtained(c)

C16_Witness ==
    /\ Done(1) /\ Main(1).cache
    /\ FetchFailed(1) /\ ReturnedCached(1)
    /\ Main(1).out.checksum.known
    /\ files[CacheChecksumPath].exists
    /\ ~MarkerHolds(files, Main(1).out.checksum.val)

AppsOf(c, fn) == {i \in 1..Len(apps[c]) : apps[c][i].fn = fn}

\* C18: serializer/deserializer discipline.  The deserializer is applied only
\* to bytes read from the payload file (once per successful read), the
\* serializer only to the bytes the transport returned for job.uri (once, in
\* a caching call that fetched), and the value a call returns is
\* transformer(deserializer(file bytes)) with each applied once when it
\* comes from the cache, transformer(fetched bytes) with no deserializer
\* when it comes from the transport.
C18_CallableDiscipline ==
    \A c \in Calls :
        /\ \A i \in AppsOf(c, "deserializer") :
              /\ apps[c][i].src = "cache" /\ apps[c][i].job = "main"
              /\ apps[c][i].arg \in {start[c][CachePath].data, files[CachePath].data}
        /\ \A i \in AppsOf(c, "serializer") :
              /\ apps[c][i].src = "transport" /\ apps[c][i].job = "main"
              /\ stack[c][1].fetched /\ apps[c][i].arg = stack[c][1].buffer
        /\ Done(c)
             => /\ Cardinality(AppsOf(c, "serializer"))
                     = (IF Main(c).cache /\ Main(c).fetched THEN 1 ELSE 0)
                /\ Cardinality(AppsOf(c, "deserializer"))
                     = Cardinality({i \in 1..Len(io[c]) :
                           io[c][i] = [op |-> "read", target |-> CachePath,
                                       res |-> "none", job |-> "main"]})
                /\ Main(c).result.kind = "value"
                     => LET n == Len(apps[c])
                            last == apps[c][n]
                        IN IF ReturnedCached(c)
                           THEN /\ n >= 2 /\ last.fn = "transformer" /\ last.src = "cache"
                                /\ apps[c][n - 1].fn = "deserializer"
                                /\ Deserializer(deserializer, apps[c][n - 1].arg) = Ok(last.arg)
                                /\ Main(c).result = RetValue(Transformer("json", last.arg).val)
                           ELSE /\ last.fn = "transformer" /\ last.src = "transport"
                                /\ last.arg = Main(c).buffer
                                /\ Main(c).result = RetValue(Transformer("json", last.arg).val)

C18_Witness ==
    /\ serializer = "gz" /\ deserializer = "gunzip"
    /\ CacheHit(1) /\ Main(1).result.kind = "value"
    /\ Cardinality(AppsOf(1, "deserializer")) = 1
    /\ \A i \in AppsOf(1, "deserializer") : apps[1][i].arg = <<GZ>> \o prev[1].buffer
    /\ prev[1].valid /\ prev[1].cold /\ prev[1].fetched

\* How far a frame at pc is from returning, in awaits.
Rank(pc) ==
    CASE pc = "checksum" -> 20
      [] pc = "readMarker" -> 9
      [] pc = "readCached" -> 8
      [] pc = "unlink" -> 7
      [] pc = "fetch" -> 5
      [] pc = "writeMarker" -> 4
      [] pc = "writePayload" -> 3
      [] pc = "transform" -> 2
      [] pc = "fallback" -> 1
      [] OTHER -> 0
Measure(c) ==
    IF stack[c] = <<>> THEN 0
    ELSE IF Len(stack[c]) = 1 THEN Rank(Top(c).pc)
    ELSE 10 * (Len(stack[c]) - 1) + Rank(Top(c).pc)

Clean(c) ==
    /\ Done(c) /\ Main(c).checksum.known /\ Main(c).checksum.val # <<>>
    /\ \A i \in 1..Len(io[c]) : io[c][i].res \in {"none", "ENOENT"}
    /\ \A i \in 1..Len(log[c]) : log[c][i].level # "error"

\* C12 as stated, for calls in which nothing failed: once every in-flight
\* call has finished, a marker and a payload that concurrent calls wrote
\* come from the same call.
C12_Original ==
    (Quiescent /\ (\A c \in ConcCalls : Clean(c))
       /\ writer[CacheChecksumPath] \in ConcCalls /\ writer[CachePath] \in ConcCalls)
    => writer[CacheChecksumPath] = writer[CachePath]

\* C12: concurrent calls for one id are neither excluded nor deduplicated,
\* and the last writer wins per file: at any moment each cache file holds
\* exactly what the call that last wrote it stored (its own checksum plus
\* newline, its own serialized fetch), and every call that wrote made its
\* own transport fetch.  The two files may come from different calls, also
\* after all calls have finished.
C12_LastWriterWins ==
    \A p \in Paths :
        writer[p] \in Calls
        => LET f == stack[writer[p]][1]
           IN /\ f.fetched
              /\ OpsWith(writer[p], "get", "main", "none") # {}
              /\ OpsWith(writer[p], "write", p, "none") # {}
              /\ files[p] = [exists |-> TRUE,
                             data |-> IF p = CacheChecksumPath
                                      THEN Append(f.checksum.val, NL)
                                      ELSE Serializer(serializer, f.buffer).val]

C12_Witness ==
    /\ Quiescent /\ \A c \in ConcCalls : Clean(c) /\ Main(c).fetched
    /\ writer[CacheChecksumPath] = 2 /\ writer[CachePath] = 1
    /\ \A c \in ConcCalls : \A p \in Paths : OpsWith(c, "write", p, "none") # {}
    /\ Main(1).checksum # Main(2).checksum

\* Path p lies below directory dir.
Under(dir, p) == Len(p) > Len(dir) /\ SubSeq(p, 1, Len(dir)) = dir

\* C17: cache paths.  For every cache root, job id and checksumExtension the
\* payload path is the root joined with the id and the marker path the root
\* joined with id + checksumExtension; the two paths differ and both lie
\* under the cache root.
C17_CachePaths ==
    pathsOf.computed
    => /\ pathsOf.cachePath = PathJoin(pathsOf.root, pathsOf.id)
       /\ pathsOf.cacheChecksumPath =
              PathJoin(pathsOf.root, IdPlus(pathsOf.id, pathsOf.ext))
       /\ pathsOf.cachePath # pathsOf.cacheChecksumPath
       /\ Under(pathsOf.root, pathsOf.cachePath)
       /\ Under(pathsOf.root, pathsOf.cacheChecksumPath)

\* C20: real transport contract.  Whatever becomes of a request, the promise
\* get returned is settled once the outcome is there: resolved with the
\* concatenated body after a response with the success status whose body
\* ended, rejected after any other status, after a connection failure and
\* after the timeout.
C20_TransportSettles ==
    /\ req.phase = "ended"
         => /\ req.promise = "resolved" /\ req.status = StatusOk
            /\ req.value = Concat(req.chunks)
    /\ req.phase \in {"refused", "aborted", "errored"} => req.promise = "rejected"
    /\ req.timedOut => req.promise = "rejected"

LoggedAt(c, level) == {i \in 1..Len(log[c]) : log[c][i].level = level}
\* The operations of the call that failed, a missing marker file not counted.
FailedOps(c) ==
    {i \in 1..Len(io[c]) :
        /\ io[c][i].res # "none"
        /\ ~(io[c][i].op = "read" /\ io[c][i].target = CacheChecksumPath
               /\ io[c][i].res = "ENOENT")}
\* The applications of a job callable that threw.
FailedApps(c) ==
    {i \in 1..Len(apps[c]) :
        LET a == apps[c][i]
        IN CASE a.fn = "serializer" -> ~Serializer(serializer, a.arg).ok
             [] a.fn = "deserializer" -> ~Deserializer(deserializer, a.arg).ok
             [] OTHER -> ~Transformer(IF a.job = "main" THEN "json" ELSE "text", a.arg).ok}
ValueFrom(c, how) ==
    /\ Main(c).result.kind = "value"
    /\ CASE how = "hit" -> ~FetchInvoked(c)
         [] how = "fresh" -> Main(c).fetched /\ Transformed(c).ok
         [] OTHER -> FetchFailed(c) \/ (Main(c).fetched /\ ~Transformed(c).ok)

CacheChecksum(fs) == Str(SliceOffLast(BufferToString(fs[CacheChecksumPath].data)))

\* C25: fast-path soundness.  A call returns through the cache-hit fast path
\* only if the checksum job produced a value, the marker file was read
\* without error and its content without the last character equals that
\* value; with an absent marker, a marker read error or a mismatch the
\* payload file is not read before the fetch of job.uri, and the call
\* proceeds to that fetch.
C25_FastPathSoundness ==
    \A c \in Calls :
        (Done(c) /\ Main(c).cache)
        => /\ CacheHit(c)
                => /\ Main(c).checksum.known
                   /\ OpsWith(c, "read", CacheChecksumPath, "none") # {}
                   /\ start[c][CacheChecksumPath].exists
                   /\ CacheChecksum(start[c]) = Main(c).checksum
           /\ (\/ ~start[c][CacheChecksumPath].exists
               \/ OpsWith(c, "read", CacheChecksumPath, "none") = {}
               \/ CacheChecksum(start[c]) # Main(c).checksum)
                => /\ ~FastPathTaken(c)
                   /\ ~Logged(c, "main", "info", "skipped")
                   /\ FetchInvoked(c)

C25_Witness ==
    /\ Done(1) /\ Main(1).cache
    /\ Main(1).checksum.known
    /\ start[1][CachePath].exists
    /\ MarkerHolds(start[1], Main(1).checksum.val)
    /\ OpsWith(1, "read", CacheChecksumPath, "EIO") # {}
    /\ Ops(1, "read", CachePath) = {}
    /\ Main(1).fetched

\* The payload reads of the call's cache-hit check that ended with `res`.
FastPathReads(c, res) ==
    {i \in OpsWith(c, "read", CachePath, res) : \A g \in Gets(c, "main") : i < g}

\* C26: dangling-marker deletion.  On the cache-hit check the marker file is
\* deleted if and only if loading the payload failed with 'file does not
\* exist'; any other payload failure leaves the marker in place; a deletion
\* that fails is logged, and the call proceeds to the fetch either way.
C26_DanglingMarkerDeletion ==
    \A c \in Calls :
        /\ Ops(c, "unlink", CacheChecksumPath) # {} => FastPathReads(c, "ENOENT") # {}
        /\ (Done(c) /\ FastPathReads(c, "ENOENT") # {})
              => Ops(c, "unlink", CacheChecksumPath) # {}
        /\ Cardinality(Ops(c, "unlink", CacheChecksumPath)) <= 1
        /\ (start[c][CacheChecksumPath].exists /\ FastPathReads(c, "ENOENT") = {})
              => /\ files[CacheChecksumPath].exists
                 /\ OpsWith(c, "write", CacheChecksumPath, "none") = {}
                       => files[CacheChecksumPath] = start[c][CacheChecksumPath]
        /\ (/\ OpsWith(c, "unlink", CacheChecksumPath, "none") # {}
            /\ OpsWith(c, "write", CacheChecksumPath, "none") = {})
              => ~files[CacheChecksumPath].exists
        /\ Done(c)
              => /\ Ops(c, "unlink", CacheChecksumPath) # {} => FetchInvoked(c)
                 /\ OpsWith(c, "unlink", CacheChecksumPath, "EIO") # {}
                       => Logged(c, "main", "error", "removeMarker")
                 /\ (FastPathReads(c, "EIO") # {} \/ Logged(c, "main", "error", "loadCached"))
                       => FetchInvoked(c)

C26_Witness ==
    /\ Done(1) /\ DanglingMarkerAtStart(1)
    /\ FastPathReads(1, "ENOENT") # {}
    /\ OpsWith(1, "unlink", CacheChecksumPath, "EIO") # {}
    /\ Logged(1, "main", "error", "removeMarker")
    /\ FetchFailed(1)
    /\ files[CacheChecksumPath] = start[1][CacheChecksumPath]

\* The call ended in a cache hit, in the stale-cache fallback, or in undefined
\* after a failed fetch.
EndedWithoutFresh(c) ==
    \/ CacheHit(c)
    \/ FallbackEntered(c)
    \/ FetchFailed(c) /\ Main(c).result = RetUndefined
WritesOf(c) ==
    {i \in 1..Len(io[c]) : io[c][i].op = "write" /\ io[c][i].job = "main"}

\* C27: write frame.  The marker and payload files are written only in a call
\* whose fetch of job.uri succeeded; a call that ends in a cache hit, in the
\* stale-cache fallback or in undefined after a failed fetch leaves the
\* payload file byte-identical and never creates or overwrites the marker
\* (its only possible mutation is deleting a dangling marker).
C27_WriteFrame ==
    \A c \in Calls :
        /\ WritesOf(c) # {} => Main(c).fetched
        /\ (Done(c) /\ Main(c).cache /\ EndedWithoutFresh(c))
              => /\ files[CachePath] = start[c][CachePath]
                 /\ \/ files[CacheChecksumPath] = start[c][CacheChecksumPath]
                    \/ /\ ~files[CacheChecksumPath].exists
                       /\ OpsWith(c, "unlink", CacheChecksumPath, "none") # {}

\* The same frame for the calls whose fetch failed or was skipped.
C27_WriteFrameUnlessFetched ==
    \A c \in Calls :
        /\ WritesOf(c) # {} => Main(c).fetched
        /\ (Done(c) /\ Main(c).cache /\ ~Main(c).fetched)
              => /\ files[CachePath] = start[c][CachePath]
                 /\ \/ files[CacheChecksumPath] = start[c][CacheChecksumPath]
                    \/ /\ ~files[CacheChecksumPath].exists
                       /\ OpsWith(c, "unlink", CacheChecksumPath, "none") # {}

\* C28: marker only with checksum.  After a successful fetch in a caching
\* call the marker is written for every checksum value the checksum job
\* returned and is not touched when the checksum is unknown; in the unknown
\* case the payload is still overwritten while the previous marker keeps its
\* old content.
C28_MarkerOnlyWithChecksum ==
    \A c \in Calls :
        (Done(c) /\ Main(c).cache /\ Main(c).fetched)
        => /\ Main(c).checksum.known <=> Ops(c, "write", CacheChecksumPath) # {}
           /\ ~Main(c).checksum.known
                => /\ Ops(c, "unlink", CacheChecksumPath) = {}
                   /\ files[CacheChecksumPath] = start[c][CacheChecksumPath]
                   /\ Serialized(c).ok => Ops(c, "write", CachePath) # {}
                   /\ (Serialized(c).ok /\ ~WriteFailed(c, CachePath))
                        => files[CachePath] = File(Serialized(c).val)

\* The same property for the checksums that are not the empty string.
C28_MarkerOnlyWithNonEmptyChecksum ==
    \A c \in Calls :
        (Done(c) /\ Main(c).cache /\ Main(c).fetched)
        => /\ (Main(c).checksum.known /\ Main(c).checksum.val # <<>>)
                <=> Ops(c, "write", CacheChecksumPath) # {}
           /\ ~Main(c).checksum.known
                => /\ Ops(c, "unlink", CacheChecksumPath) = {}
                   /\ files[CacheChecksumPath] = start[c][CacheChecksumPath]
                   /\ Serialized(c).ok => Ops(c, "write", CachePath) # {}
                   /\ (Serialized(c).ok /\ ~WriteFailed(c, CachePath))
                        => files[CachePath] = File(Serialized(c).val)

\* C29: no checksum, no marker read.  The marker file is read only when the
\* checksum job produced a checksum; when the checksum is unknown the call
\* goes to the fetch of job.uri without reading the marker or the payload.
C29_MarkerReadNeedsChecksum ==
    \A c \in Calls :
        /\ Ops(c, "read", CacheChecksumPath) # {} => Fresh(c).known
        /\ (Done(c) /\ Main(c).cache /\ ~Fresh(c).known)
              => /\ FetchInvoked(c)
                 /\ Ops(c, "read", CacheChecksumPath) = {}
                 /\ FastPathReads(c, "none") \cup FastPathReads(c, "ENOENT")
                        \cup FastPathReads(c, "EIO") = {}

\* What holds of a call without a checksum: it goes to the fetch of job.uri
\* without reading the payload first and without a cache hit.
C29_NoPayloadReadWithoutChecksum ==
    \A c \in Calls :
        (Done(c) /\ Main(c).cache /\ ~Fresh(c).known)
        => /\ FetchInvoked(c)
           /\ ~CacheHit(c)
           /\ FastPathReads(c, "none") \cup FastPathReads(c, "ENOENT")
                  \cup FastPathReads(c, "EIO") = {}

\* The deserializer gives back the bytes the serializer was given.
RoundTrip(b) ==
    /\ Serializer(serializer, b).ok
    /\ Deserializer(deserializer, Serializer(serializer, b).val) = Ok(b)
\* The call fetched bytes its transformer throws on, after writing them.
TransformFailedOnFresh(c) ==
    /\ Done(c) /\ Main(c).cache /\ Main(c).fetched /\ ~Transformed(c).ok
ReadsAfterFetch(c) ==
    {i \in Ops(c, "read", CachePath) : \E g \in Gets(c, "main") : g < i}

\* C30: transformer failure on fresh bytes.  When the transformer throws on
\* the fetched bytes, the marker and the payload the call wrote before stay
\* on disk and the call tries the fallback on the payload as it now is (with
\* a deserializer that inverts the serializer and the payload written, the
\* transformer throws on it again and the call returns undefined); a call
\* that starts from a matching marker and such a payload gets no cache hit
\* and performs the fetch of job.uri.
C30_TransformerFailureOnFresh ==
    \A c \in Calls :
        /\ TransformFailedOnFresh(c)
              => /\ OpsWith(c, "write", CacheChecksumPath, "none") # {}
                       => MarkerHolds(files, Main(c).checksum.val)
                 /\ OpsWith(c, "write", CachePath, "none") # {}
                       => files[CachePath] = File(Serialized(c).val)
                 /\ Serialized(c).ok => Ops(c, "write", CachePath) # {}
                 /\ FallbackEntered(c)
                 /\ Cardinality(ReadsAfterFetch(c)) = 1
                 /\ Ops(c, "unlink", CachePath) = {}
                 /\ (OpsWith(c, "write", CachePath, "none") # {} /\ RoundTrip(Main(c).buffer))
                       => /\ ~Cached(c, files).ok
                          /\ Main(c).result = RetUndefined
        /\ (/\ Done(c) /\ Main(c).cache /\ Main(c).checksum.known
            /\ MarkerHolds(start[c], Main(c).checksum.val)
            /\ start[c][CachePath].exists
            /\ ~Cached(c, start[c]).ok)
              => /\ ~CacheHit(c)
                 /\ FetchInvoked(c)

C30_Witness ==
    /\ Done(1) /\ Main(1).cache
    /\ prev[1].valid /\ prev[1].cold /\ prev[1].cache /\ prev[1].fetched
    /\ ~Transformer("json", prev[1].buffer).ok
    /\ prev[1].result = RetUndefined
    /\ RoundTrip(prev[1].buffer)
    /\ Main(1).checksum.known /\ prev[1].checksum = Main(1).checksum
    /\ MarkerHolds(start[1], Main(1).checksum.val)
    /\ start[1][CachePath] = File(Serializer(serializer, prev[1].buffer).val)
    /\ FastPathReads(1, "none") # {}
    /\ Logged(1, "main", "error", "loadCached")
    /\ Main(1).fetched

\* The bytes a fixture stands for.
FixtureBytes(fx) ==
    CASE fx.kind = "buffer" -> fx.data
      [] fx.kind = "string" -> Utf8Encode(fx.data)
      [] OTHER -> Utf8Encode(JsonStringify(fx.data))

\* C21: mock fixtures.  get(uri) of the fixture transport resolves every
\* registered URI to its fixture (a Buffer as it is, a string as its UTF-8
\* bytes, any other value as the UTF-8 bytes of its JSON text) and fails
\* with a not-found error for exactly the unregistered URIs.
C21_MockFixtures ==
    mock.promise # "idle"
    => LET fx == mock.fixtures[mock.uri]
       IN /\ fx # NoFixture
               => mock.promise = "resolved" /\ mock.value = FixtureBytes(fx)
          /\ fx = NoFixture <=> mock.promise = "rejected"

\* The same property for the fixtures other than the empty string.
C21_MockFixturesNonEmpty ==
    (mock.promise # "idle" /\ mock.fixtures[mock.uri] # [kind |-> "string", data |-> <<>>])
    => LET fx == mock.fixtures[mock.uri]
       IN /\ fx # NoFixture
               => mock.promise = "resolved" /\ mock.value = FixtureBytes(fx)
          /\ fx = NoFixture <=> mock.promise = "rejected"

\* A worldgen file of a supported type, its type key and its identifier
\* namespace:path.
Supported(f) == \E t \in Types : GlobMatch(f, t)
KeyOf(f) == (CHOOSE t \in Types : GlobMatch(f, t)).key
NamespacePath(f) == <<f[2], ":">> \o JoinSlash(SubSeq(f, 5, Len(f) - 1))
\* The files whose changes concern the panel: the previewed file and the
\* files of its datapack it can reference.
CanReference(f) == f = view.fileUri \/ (view.pack /\ Supported(f))
TextChange(f) ==
    view.docs[f].has /\ view'.docs[f].has /\ view'.docs[f] # view.docs[f]
PostedUpdate(f) ==
    /\ view'.posts = view.posts + 1
    /\ view'.message.type = "update"
    /\ view'.message.data[KeyOf(f)][NamespacePath(f)] = view'.docs[f]
NothingPosted == view'.posts = view.posts /\ view'.message = view.message

\* C23: live update.  While a preview panel is open, every text change of
\* the previewed file or of a file it can reference (a worldgen file of a
\* supported type in the same datapack) makes the host post an 'update'
\* message whose data holds the new text; after the panel is disposed no
\* further update is posted.
C23_LiveUpdate ==
    [][/\ (view.phase = "open" /\ view'.phase = "open")
            => \A f \in WorkspaceFiles :
                 (CanReference(f) /\ TextChange(f)) => PostedUpdate(f)
       /\ (view.phase = "disposed" /\ view'.phase = "disposed") => NothingPosted]_vars

\* The same property for the files the panel found in the datapack when it
\* was initialised.
C23_LiveUpdateOfDependencies ==
    [][/\ (view.phase = "open" /\ view'.phase = "open")
            => \A f \in WorkspaceFiles :
                 ((\E d \in view.dependencies : d.uri = f) /\ TextChange(f))
                 => PostedUpdate(f)
       /\ (view.phase = "disposed" /\ view'.phase = "disposed") => NothingPosted]_vars

\* The files of the datapack the panel was initialised over.
PackFiles == IF view.pack THEN {f \in view.atInit : Supported(f)} ELSE {}

ChecksumStrings == {BufferToString(b) : b \in ChecksumBuffers}
AllReturned == \A c \in ConcCalls : Done(c)
SameRemote(cs, b) ==
    /\ \A c \in ConcCalls :
          /\ Main(c).cache
          /\ Main(c).checksum = Str(cs)
          /\ Main(c).fetched => Main(c).buffer = b
          /\ \A i \in 1..Len(io[c]) : io[c][i].res \in {"none", "ENOENT"}
    /\ \E c \in ConcCalls : Main(c).fetched
    /\ Transformer("json", b).ok
Converged(cs, b) ==
    /\ \A c \in ConcCalls : Main(c).result = RetValue(Transformer("json", b).val)
    /\ MarkerHolds(files, cs)
    /\ files[CachePath] = File(Serializer(serializer, b).val)

\* C31: concurrent convergence.  When concurrent calls for one id run against
\* an unchanged remote (checksum c, bytes b) and nothing fails other than
\* with 'file does not exist', every call returns transformer(b) and, once
\* all calls have returned, the marker holds c plus newline and the payload
\* holds serializer(b).
C31_ConcurrentConvergence ==
    \A cs \in ChecksumStrings \ {StaleChecksum} : \A b \in PayloadBuffers :
        (AllReturned /\ SameRemote(cs, b)) => Converged(cs, b)

\* What holds instead: the calls converge when the checksum is not the empty
\* string and the cache was empty when they started.
C31_ConvergenceFromEmptyCache ==
    \A cs \in ChecksumStrings \ {<<>>} : \A b \in PayloadBuffers :
        (AllReturned /\ SameRemote(cs, b)
           /\ \A c \in ConcCalls : \A p \in Paths : ~start[c][p].exists)
        => Converged(cs, b)

NamesLayer(s, value) == value.type = "string" /\ Includes(ObjectKeys(s.layers), value.val)

\* C37: LayeredSampler selection invariant.  After construction with at least
\* one layer and after any sequence of setConfig calls, currentLayer is one
\* of the layer names and currentDelegate is layers[currentLayer]; a
\* setConfig call whose value is not a string naming an existing layer
\* leaves both as they were.
C37_LayeredSelection ==
    LET s == layered.sampler
    IN s.class = "LayeredSampler"
       => /\ NamesLayer(s, s.currentLayer)
          /\ s.currentDelegate \in DelegateIds
          /\ \E i \in 1..Len(s.layers) :
                /\ s.layers[i].name = s.currentLayer.val
                /\ s.layers[i].delegate = s.currentDelegate
          /\ (layered.calls > 0 /\ ~NamesLayer(layered.before, layered.value))
                => /\ s.currentLayer = layered.before.currentLayer
                   /\ s.currentDelegate = layered.before.currentDelegate
          /\ (layered.calls > 0 /\ NamesLayer(layered.before, layered.value))
                => s.currentLayer = layered.value
C37_Witness ==
    /\ layered.calls = MaxSetConfigs
    /\ layered.value = StringValue("other")
    /\ layered.sampler.class = "LayeredSampler"
    /\ layered.sampler.currentLayer = StringValue("depth")
    /\ layered.sampler.layerNames = <<"0", "depth">>

\* The update that answered a 'ready' was dispatched when no listener was
\* registered.
AnswerLost == \E i \in 1..Len(web.lost) : web.lost[i].answers
ReadyPosted == IF web.phase = "unloaded" THEN 0 ELSE 1
Handshake ==
    /\ web.phase # "unloaded" => web.host = "open"
    /\ web.ready + web.answered = ReadyPosted
    /\ Len(web.inbox) + web.handled + Len(web.lost) = web.answered + web.posted
    /\ ~AnswerLost

\* C34: ready/update handshake.  The host has registered its message handler
\* when the webview's HTML loads and posts exactly one update for every
\* 'ready' it receives; the view has registered its message listener when
\* it posts 'ready', so the update that answers it is never lost.
C34_ReadyUpdateHandshake == Handshake

\* What holds instead: the handshake of the script of view/view.ts.
C34_HandshakeOfScript == web.variant = "script" => Handshake /\ web.lost = <<>>

\* C35: view scale bound.  In the script of the view, viewScale is strictly
\* between 1/8 and 8 in every state; a persisted value outside that range is
\* replaced by 1 at start-up; a wheel event whose resulting scale would
\* leave the range changes neither viewScale nor the persisted state and
\* requests no redraw.
C35_ViewScaleBound ==
    /\ [](web.variant = "script" => InRange(web.viewScale, ScaleLimit))
    /\ [][web.variant = "script"
            => /\ (web.phase = "unloaded" /\ web'.phase = "running"
                     /\ ~InRange(ScaleOrOne(web.persisted.viewScale), ScaleLimit))
                  => web'.viewScale = Scale(0)
               /\ (web'.wheels > web.wheels
                     /\ ~InRange(Scale(web.viewScale.exp + web'.deltaY), ScaleLimit))
                  => /\ web'.viewScale = web.viewScale
                     /\ web'.persisted = web.persisted
                     /\ web'.frames = web.frames]_vars
C35_Witness ==
    /\ web.variant = "script" /\ web.fileType = "worldgen/noise"
    /\ web.wheels = MaxEvents /\ web.deltaY = 2
    /\ web.viewScale = Scale(2) /\ web.persisted.viewScale = Scale(2)
    /\ web.frames = 1

\* The sampler was replaced by an update after the user's last pick.
ReplacedAfterPick == web.picks > 0 /\ web.replaced
ConfigSurvived ==
    /\ web.sampler.currentLayer = web.picked
    /\ web.persisted.viewConfig = web.picked

C36_ConfigSurvivesUpdatesOfScript ==
    (web.variant = "script" /\ ReplacedAfterPick) => ConfigSurvived

\* A record that holds vanilla entries only, for some outcome of the
\* downloads.
Vanilla(data) ==
    \E downloaded \in [Keys -> BOOLEAN] :
        data = [k \in Keys |-> VanillaEntries(k, downloaded[k])]
RECURSIVE WithWritten(_, _)
WithWritten(data, written) ==
    IF written = <<>> THEN data
    ELSE WithWritten(
             [data EXCEPT !["worldgen/noise"][Identifier(ResourceMatch(Head(written).file))] =
                 Entry(Head(written).content)],
             Tail(written))
HasData(p) == panels.panel[p].pc \in {"loading", "open"}

\* C32: vanilla data isolation.  getVanillaData hands out a deep copy: the
\* memoized record holds vanilla entries only, whatever the panels stored,
\* and a panel's data is the record it was handed with its own datapack
\* files and document edits, and nothing of another panel.
C32_VanillaDataIsolation ==
    /\ panels.vanilla.set => Vanilla(panels.vanilla.val)
    /\ \A p \in PanelIds :
          HasData(p)
          => /\ Vanilla(panels.panel[p].returned)
             /\ DataOf(panels, p)
                   = WithWritten(panels.panel[p].returned, panels.panel[p].written)
C32_Witness ==
    /\ \A p \in PanelIds : panels.panel[p].pc = "open"
    /\ panels.edits = MaxEdits
    /\ Len(panels.panel[1].written) = 3
    /\ panels.panel[2].written = <<>>
    /\ panels.vanilla.val["worldgen/noise"][<<"minecraft", ":", "v">>].has
    /\ DataOf(panels, 1)["worldgen/noise"][<<"minecraft", ":", "v">>]
          # panels.vanilla.val["worldgen/noise"][<<"minecraft", ":", "v">>]
    /\ DataOf(panels, 2) = panels.vanilla.val

Starts(p) == panels.panel[p].pc = "closed" /\ panels'.panel[p].pc # "closed"
Downloading == {p \in PanelIds : panels.panel[p].pc = "downloading"}
\* A call that starts when a call has completed returns the memoized record
\* and invokes no download; a call that starts earlier invokes one download
\* per type.
CallsMemoized ==
    \A p \in PanelIds :
        Starts(p)
        => IF panels.vanilla.set
           THEN /\ panels'.downloads = panels.downloads
                /\ panels'.panel[p].returned = panels.vanilla.val
                /\ panels'.vanilla = panels.vanilla
           ELSE /\ panels'.downloads = panels.downloads + Cardinality(Keys)
                /\ panels'.panel[p].pc = "downloading"

\* C33: vanilla data memoization.  Once one getVanillaData call has
\* completed, every later call returns the memoized record without invoking
\* the downloader, and the memoized record stays as it is for the lifetime
\* of the ViewProvider, a type whose download returned undefined staying an
\* empty record; calls that start before the first one completes each run
\* their own downloads.
C33_VanillaMemoization ==
    [][/\ CallsMemoized
       /\ panels.vanilla.set => panels'.vanilla = panels.vanilla]_vars

\* What holds instead: the memoized record is the one the call that
\* completed last stored, and it stays once no call is downloading.
C33_MemoizationOfLastCompletion ==
    [][/\ CallsMemoized
       /\ (panels.vanilla.set /\ Downloading = {}) => panels'.vanilla = panels.vanilla
       /\ \A p \in PanelIds :
             (panels.panel[p].pc = "downloading" /\ panels'.panel[p].pc # "downloading")
             => /\ panels'.vanilla.set
                /\ panels'.panel[p].returned = panels'.vanilla.val]_vars
====
